---- MODULE Spec2Model ----
(***************************************************************************)
(* pg_ai_query: the natural-language-to-SQL pipeline of                    *)
(* QueryGenerator::generateQuery (multi-provider, structured JSON replies) *)
(* and of its single-provider predecessor, with the helpers they call.     *)
(*                                                                         *)
(* Text is modelled at two granularities.                                  *)
(*  - A std::string that the code only compares, tests for emptiness or    *)
(*    concatenates (request fields, credentials, messages, prompts) is a   *)
(*    TLA+ string.                                                         *)
(*  - A provider reply is a sequence of lexemes (fence, word, whitespace,  *)
(*    punctuation, JSON literal, JSON string); the regex search and the    *)
(*    JSON parse work on that sequence.  The characters of a lexeme are    *)
(*    kept, so that the lexical safety check works on characters.          *)
(***************************************************************************)
EXTENDS Integers, Sequences, FiniteSets, TLC

VARIABLES
    impl,               \* which generateQuery is running: "multi" | "legacy"
    request,            \* QueryRequest of the call
    config,             \* ConfigManager's configuration (providers, models)
    env_api_key,        \* OPENAI_API_KEY of the process environment ("" = unset)
    logging_enabled,    \* logger.cpp: static bool logging_enabled
    log,                \* what the logger has emitted through ereport
    pc,                 \* position of the call in generateQuery
    api_key,            \* local api_key
    api_key_source,     \* local api_key_source
    selected_provider,  \* local selected_provider
    provider_config,    \* local provider_config (a pointer: NoEntry = nullptr)
    prompt,             \* local prompt
    client,             \* local client: which create_client built it
    model_name,         \* local model_name
    options,            \* local ai::GenerateOptions
    gen,                \* what client.generate_text returned
    invocations,        \* number of generate_text calls made
    result,             \* the QueryResult returned
    query,              \* candidate handed to isSafeQuery
    verdict,            \* what isSafeQuery returned
    args,               \* arguments of the SQL function pg_generate_query
    datum,              \* how pg_generate_query ended: text returned or error raised
    recovered,          \* result of extracting again from a rendered result
    versions            \* the configurations the process has held, oldest first

vars == <<impl, request, config, env_api_key, logging_enabled, log, pc, api_key,
          api_key_source, selected_provider, provider_config, prompt, client,
          model_name, options, gen, invocations, result, query, verdict,
          args, datum, recovered, versions>>

-----------------------------------------------------------------------------
(* Characters.                                                             *)

UpperCase == <<"A","B","C","D","E","F","G","H","I","J","K","L","M",
               "N","O","P","Q","R","S","T","U","V","W","X","Y","Z">>
LowerCase == <<"a","b","c","d","e","f","g","h","i","j","k","l","m",
               "n","o","p","q","r","s","t","u","v","w","x","y","z">>

\* ::tolower on one character
ToLowerChar(ch) ==
    IF \E i \in DOMAIN UpperCase : UpperCase[i] = ch
    THEN LowerCase[CHOOSE i \in DOMAIN UpperCase : UpperCase[i] = ch]
    ELSE ch

\* std::transform(begin, end, begin, ::tolower)
ToLower(cs) == [i \in DOMAIN cs |-> ToLowerChar(cs[i])]

\* std::string::npos, as a position no match has (positions count from 1)
npos == 0

\* std::string::find: the first position where needle occurs, or npos
Find(hay, needle) ==
    LET hits == {i \in 1..(Len(hay) - Len(needle) + 1) :
                    SubSeq(hay, i, i + Len(needle) - 1) = needle}
    IN IF hits = {} THEN npos ELSE CHOOSE i \in hits : \A j \in hits : i <= j

-----------------------------------------------------------------------------
(* QueryGenerator::isSafeQuery (single-provider source).                   *)

kwSelect   == <<"s","e","l","e","c","t">>
kwInsert   == <<"i","n","s","e","r","t">>
kwUpdate   == <<"u","p","d","a","t","e">>
kwDelete   == <<"d","e","l","e","t","e">>
kwDrop     == <<"d","r","o","p">>
kwCreate   == <<"c","r","e","a","t","e">>
kwAlter    == <<"a","l","t","e","r">>
kwTruncate == <<"t","r","u","n","c","a","t","e">>
kwGrant    == <<"g","r","a","n","t">>
kwRevoke   == <<"r","e","v","o","k","e">>
kwExec     == <<"e","x","e","c">>
kwExecute  == <<"e","x","e","c","u","t","e">>

\* std::vector<std::string> forbidden
forbidden == <<kwInsert, kwUpdate, kwDelete, kwDrop, kwCreate, kwAlter,
               kwTruncate, kwGrant, kwRevoke, kwExec, kwExecute>>

\* a validator that compares the query as written, without lowering its case
isSafeQueryCaseSensitive(q) ==
    IF q = <<>> THEN FALSE
    ELSE IF Find(q, kwSelect) = npos THEN FALSE
    ELSE \A n \in DOMAIN forbidden : Find(q, forbidden[n]) = npos

isSafeQuery(q) ==
    IF q = <<>> THEN FALSE
    ELSE LET lower_query == ToLower(q)
         IN IF Find(lower_query, kwSelect) = npos THEN FALSE
            ELSE \A n \in DOMAIN forbidden :
                    Find(lower_query, forbidden[n]) = npos

-----------------------------------------------------------------------------
(* Lexemes of a provider reply.  k is the kind, s the characters of the    *)
(* lexeme, c the content of a JSON string literal (a text again, the       *)
(* quotes not included).                                                   *)

\* "BQ" stands for the backquote character
Fence     == [k |-> "fence", s |-> <<"BQ","BQ","BQ">>, c |-> <<>>]
Word(cs)  == [k |-> "word",  s |-> cs, c |-> <<>>]
Space(cs) == [k |-> "ws",    s |-> cs, c |-> <<>>]
Punct(ch) == [k |-> "punct", s |-> <<ch>>, c |-> <<>>]
Lit(cs)   == [k |-> "lit",   s |-> cs, c |-> <<>>]
Str(txt)  == [k |-> "str",   s |-> <<>>, c |-> txt]

LBrace   == Punct("{")
RBrace   == Punct("}")
LBracket == Punct("[")
RBracket == Punct("]")
Colon    == Punct(":")
Comma    == Punct(",")
NL       == Space(<<"\n">>)
SP       == Space(<<" ">>)

cTrue  == <<"t","r","u","e">>
cFalse == <<"f","a","l","s","e">>
cNull  == <<"n","u","l","l">>

\* the characters of a text: what the std::string holds
RECURSIVE Chars(_)
Chars(txt) ==
    IF txt = <<>> THEN <<>>
    ELSE LET x == Head(txt)
         IN (IF x.k = "str" THEN <<"\"">> \o Chars(x.c) \o <<"\"">> ELSE x.s)
            \o Chars(Tail(txt))

-----------------------------------------------------------------------------
(* nlohmann::json values.                                                  *)

JNull    == [t |-> "null"]
JBool(b) == [t |-> "boolean", b |-> b]
JNum(cs) == [t |-> "number", n |-> cs]
JStr(x)  == [t |-> "string", c |-> x]
JArr(a)  == [t |-> "array", a |-> a]
JObj(m)  == [t |-> "object", m |-> m]

\* object_t is a map; the parser stores a member with operator[], so the
\* last value of a repeated key wins
PutMember(m, key, v) ==
    [x \in (DOMAIN m) \cup {key} |-> IF x = key THEN v ELSE m[x]]

ParseFail == [ok |-> FALSE]
ParseOk(v, n) == [ok |-> TRUE, v |-> v, n |-> n]

LitValue(cs) ==
    IF cs = cTrue THEN JBool(TRUE)
    ELSE IF cs = cFalse THEN JBool(FALSE)
    ELSE IF cs = cNull THEN JNull
    ELSE JNum(cs)

RECURSIVE ParseValue(_, _)
RECURSIVE ParseMembers(_, _, _)
RECURSIVE ParseElements(_, _, _)

\* one JSON value starting at lexeme i of t (whitespace already dropped)
ParseValue(t, i) ==
    IF i > Len(t) THEN ParseFail
    ELSE IF t[i].k = "str" THEN ParseOk(JStr(t[i].c), i + 1)
    ELSE IF t[i].k = "lit" THEN ParseOk(LitValue(t[i].s), i + 1)
    ELSE IF t[i] = LBrace THEN
        IF i + 1 <= Len(t) /\ t[i + 1] = RBrace
        THEN ParseOk(JObj(<<>>), i + 2)
        ELSE ParseMembers(t, i + 1, <<>>)
    ELSE IF t[i] = LBracket THEN
        IF i + 1 <= Len(t) /\ t[i + 1] = RBracket
        THEN ParseOk(JArr(<<>>), i + 2)
        ELSE ParseElements(t, i + 1, <<>>)
    ELSE ParseFail

\* "key" : value, then a comma and more members, or the closing brace
ParseMembers(t, i, m) ==
    IF i + 1 > Len(t) \/ t[i].k # "str" \/ t[i + 1] # Colon THEN ParseFail
    ELSE LET r == ParseValue(t, i + 2)
         IN IF ~r.ok \/ r.n > Len(t) THEN ParseFail
            ELSE IF t[r.n] = Comma
                 THEN ParseMembers(t, r.n + 1, PutMember(m, t[i].c, r.v))
            ELSE IF t[r.n] = RBrace
                 THEN ParseOk(JObj(PutMember(m, t[i].c, r.v)), r.n + 1)
            ELSE ParseFail

\* value, then a comma and more elements, or the closing bracket
ParseElements(t, i, a) ==
    LET r == ParseValue(t, i)
    IN IF ~r.ok \/ r.n > Len(t) THEN ParseFail
       ELSE IF t[r.n] = Comma THEN ParseElements(t, r.n + 1, Append(a, r.v))
       ELSE IF t[r.n] = RBracket THEN ParseOk(JArr(Append(a, r.v)), r.n + 1)
       ELSE ParseFail

IsWs(x) == x.k = "ws"
NotWs(x) == x.k # "ws"

\* nlohmann::json::parse: one value, whitespace allowed around every lexeme,
\* nothing after it; parse_error otherwise
JsonParse(txt) ==
    LET t == SelectSeq(txt, NotWs)
        r == ParseValue(t, 1)
    IN IF r.ok /\ r.n = Len(t) + 1 THEN [ok |-> TRUE, v |-> r.v] ELSE ParseFail

-----------------------------------------------------------------------------
(* QueryGenerator::extractSQLFromResponse (multi-provider source).         *)

cJson == <<"j","s","o","n">>

\* the first lexeme at or after i that is not whitespace (Len(t) + 1: none)
SkipWs(t, i) ==
    LET rest == {j \in i..Len(t) : ~IsWs(t[j])}
    IN IF rest = {} THEN Len(t) + 1
       ELSE CHOOSE j \in rest : \A x \in rest : j <= x

NoMatch == [found |-> FALSE]

\* the "(?:json)?" of a pattern compiled with std::regex::icase
IsJsonMarker(x) == x.k = "word" /\ ToLower(x.s) = cJson

\* the pattern  ```(?:json)?\s*(\{[\s\S]*?\})\s*```  matched with its opening
\* fence at lexeme i: the optional marker, whitespace, a brace, the shortest
\* run that ends in a brace followed by whitespace and a fence
MatchAt(t, i) ==
    IF t[i] # Fence THEN NoMatch
    ELSE LET p == IF i + 1 <= Len(t) /\ IsJsonMarker(t[i + 1])
                  THEN i + 2 ELSE i + 1
             r == SkipWs(t, p)
         IN IF r > Len(t) \/ t[r] # LBrace THEN NoMatch
            ELSE LET ends == {e \in (r + 1)..Len(t) :
                                /\ t[e] = RBrace
                                /\ SkipWs(t, e + 1) <= Len(t)
                                /\ t[SkipWs(t, e + 1)] = Fence}
                 IN IF ends = {} THEN NoMatch
                    ELSE [found |-> TRUE,
                          cap |-> SubSeq(t, r,
                                    CHOOSE e \in ends : \A x \in ends : e <= x)]

\* std::regex_search(text, match, json_block): the leftmost match; cap is match[1]
RegexSearch(t) ==
    LET starts == {i \in 1..Len(t) : MatchAt(t, i).found}
    IN IF starts = {} THEN NoMatch
       ELSE MatchAt(t, CHOOSE i \in starts : \A x \in starts : i <= x)

Key(cs) == <<Word(cs)>>
kSql          == Key(<<"s","q","l">>)
kExplanation  == Key(<<"e","x","p","l","a","n","a","t","i","o","n">>)
kExplaination == Key(<<"e","x","p","l","a","i","n","a","t","i","o","n">>)
kWarnings     == Key(<<"w","a","r","n","i","n","g","s">>)
kRowLimit     == Key(<<"r","o","w","_","l","i","m","i","t","_",
                       "a","p","p","l","i","e","d">>)
kVisualization == Key(<<"s","u","g","g","e","s","t","e","d","_","v","i","s",
                        "u","a","l","i","z","a","t","i","o","n">>)

\* "Raw LLM output (no JSON detected)"
RawMarker == <<Word(<<"R","a","w">>), SP, Word(<<"L","L","M">>), SP,
               Word(<<"o","u","t","p","u","t">>), SP,
               Word(<<"(","n","o">>), SP, Word(<<"J","S","O","N">>), SP,
               Word(<<"d","e","t","e","c","t","e","d",")">>)>>

\* the object  {{"sql", text}, {"explanation", "Raw LLM output ..."}}
Fallback(text) ==
    JObj(PutMember(PutMember(<<>>, kSql, JStr(text)),
                   kExplanation, JStr(RawMarker)))

\* an extractor that gives up, with an empty object, when nothing parses
extractNoFallback(text) ==
    LET match == RegexSearch(text)
    IN IF match.found /\ JsonParse(match.cap).ok THEN JsonParse(match.cap).v
       ELSE IF JsonParse(text).ok THEN JsonParse(text).v
       ELSE JObj(<<>>)

extractSQLFromResponse(text) ==
    LET match == RegexSearch(text)
    IN IF match.found /\ JsonParse(match.cap).ok THEN JsonParse(match.cap).v
       ELSE IF JsonParse(text).ok THEN JsonParse(text).v
       ELSE Fallback(text)

-----------------------------------------------------------------------------
(* nlohmann::json accessors as generateQuery uses them.  An accessor       *)
(* returns [thrown, what, v]: what is the exception's id when it throws.   *)

Ret(v)      == [thrown |-> FALSE, what |-> "", v |-> v]
Throw(what) == [thrown |-> TRUE, what |-> what, v |-> <<>>]

\* an accessor that gives the default for anything it cannot read as a string
ValueStringLenient(j, key, default) ==
    IF j.t # "object" THEN Ret(default)
    ELSE IF key \notin DOMAIN j.m THEN Ret(default)
    ELSE IF j.m[key].t # "string" THEN Ret(default)
    ELSE Ret(j.m[key].c)

\* j.value(key, default) for a std::string default: type_error.306 when j is
\* no object, type_error.302 when the member is no string
ValueString(j, key, default) ==
    IF j.t # "object" THEN Throw("[json.exception.type_error.306]")
    ELSE IF key \notin DOMAIN j.m THEN Ret(default)
    ELSE IF j.m[key].t # "string" THEN Throw("[json.exception.type_error.302]")
    ELSE Ret(j.m[key].c)

\* j.value(key, default) for a bool default
ValueBool(j, key, default) ==
    IF j.t # "object" THEN Throw("[json.exception.type_error.306]")
    ELSE IF key \notin DOMAIN j.m THEN Ret(default)
    ELSE IF j.m[key].t # "boolean" THEN Throw("[json.exception.type_error.302]")
    ELSE Ret(j.m[key].b)

\* a normalisation that drops a warnings value given as a single string
WarningsArrayOnly(j) ==
    IF kWarnings \notin DOMAIN j.m THEN <<>>
    ELSE LET w == j.m[kWarnings]
         IN IF w.t = "array"
            THEN IF \A n \in DOMAIN w.a : w.a[n].t = "string"
                 THEN [n \in DOMAIN w.a |-> w.a[n].c]
                 ELSE <<>>
            ELSE <<>>

\* the try block that fills warnings_vec: an array of strings is copied, a
\* single string is pushed, get<std::vector<std::string>> throws on an
\* element that is no string and the catch (...) leaves the vector empty
WarningsVec(j) ==
    IF kWarnings \notin DOMAIN j.m THEN <<>>
    ELSE LET w == j.m[kWarnings]
         IN IF w.t = "array"
            THEN IF \A n \in DOMAIN w.a : w.a[n].t = "string"
                 THEN [n \in DOMAIN w.a |-> w.a[n].c]
                 ELSE <<>>
            ELSE IF w.t = "string" THEN <<w.c>>
            ELSE <<>>

-----------------------------------------------------------------------------
(* QueryResult, and the part of generateQuery that follows generate_text.  *)

\* a QueryResult built with only success and error_message designated
Failure(msg) ==
    [generated_query |-> <<>>, explanation |-> <<>>, warnings |-> <<>>,
     row_limit_applied |-> FALSE, suggested_visualization |-> <<>>,
     success |-> FALSE, error_message |-> msg]

\* a handler that returns the result without the message of the exception
ExceptionLost(what) == Failure("")

\* the catch (const std::exception& e) at the end of generateQuery
Exception(what) == Failure("Exception: " \o what)

\* the result before the call has returned
NoResult ==
    [generated_query |-> <<>>, explanation |-> <<>>, warnings |-> <<>>,
     row_limit_applied |-> FALSE, suggested_visualization |-> <<>>,
     success |-> FALSE, error_message |-> ""]

vizTable == <<Word(<<"t","a","b","l","e">>)>>

\* a result building that has no suggested visualization of its own
SuccessFromNoVizDefault(j, sql) ==
    LET explanation == ValueString(j, kExplaination, <<>>)
        row_limit   == ValueBool(j, kRowLimit, FALSE)
        viz         == ValueString(j, kVisualization, <<>>)
    IN IF explanation.thrown THEN Exception(explanation.what)
       ELSE IF row_limit.thrown THEN Exception(row_limit.what)
       ELSE IF viz.thrown THEN Exception(viz.what)
       ELSE [generated_query |-> sql,
             explanation |-> explanation.v,
             warnings |-> WarningsVec(j),
             row_limit_applied |-> row_limit.v,
             suggested_visualization |-> viz.v,
             success |-> TRUE,
             error_message |-> ""]

\* a result building that reads the warnings without the try block, so that
\* a warnings value it cannot take ends the call in the outer catch
SuccessFromStrictWarnings(j, sql) ==
    LET explanation == ValueString(j, kExplaination, <<>>)
        row_limit   == ValueBool(j, kRowLimit, FALSE)
        viz         == ValueString(j, kVisualization, vizTable)
        taken       == \/ kWarnings \notin DOMAIN j.m
                       \/ j.m[kWarnings].t = "string"
                       \/ /\ j.m[kWarnings].t = "array"
                          /\ \A n \in DOMAIN j.m[kWarnings].a :
                                j.m[kWarnings].a[n].t = "string"
    IN IF ~taken THEN Exception("[json.exception.type_error.302]")
       ELSE IF explanation.thrown THEN Exception(explanation.what)
       ELSE IF row_limit.thrown THEN Exception(row_limit.what)
       ELSE IF viz.thrown THEN Exception(viz.what)
       ELSE [generated_query |-> sql,
             explanation |-> explanation.v,
             warnings |-> WarningsVec(j),
             row_limit_applied |-> row_limit.v,
             suggested_visualization |-> viz.v,
             success |-> TRUE,
             error_message |-> ""]

\* the success result built from the extracted object j whose sql is not
\* empty; the members are read in the order of the designated initialisers
\* and the first accessor that throws ends the call in the outer catch
SuccessFrom(j, sql) ==
    LET explanation == ValueString(j, kExplaination, <<>>)
        row_limit   == ValueBool(j, kRowLimit, FALSE)
        viz         == ValueString(j, kVisualization, vizTable)
    IN IF explanation.thrown THEN Exception(explanation.what)
       ELSE IF row_limit.thrown THEN Exception(row_limit.what)
       ELSE IF viz.thrown THEN Exception(viz.what)
       ELSE [generated_query |-> sql,
             explanation |-> explanation.v,
             warnings |-> WarningsVec(j),
             row_limit_applied |-> row_limit.v,
             suggested_visualization |-> viz.v,
             success |-> TRUE,
             error_message |-> ""]

\* a result building that takes the raw text as the SQL when the parsed
\* object has none
FromTextRawOnEmpty(text) ==
    LET j   == extractSQLFromResponse(text)
        sql == ValueString(j, kSql, <<>>)
    IN IF sql.thrown THEN Exception(sql.what)
       ELSE IF sql.v = <<>> THEN SuccessFrom(Fallback(text), text)
       ELSE SuccessFrom(j, sql.v)

\* extraction and result building for a reply text that is not empty
FromText(text) ==
    LET j   == extractSQLFromResponse(text)
        sql == ValueString(j, kSql, <<>>)
    IN IF sql.thrown THEN Exception(sql.what)
       ELSE IF sql.v = <<>> THEN Failure("No SQL found in model response")
       ELSE SuccessFrom(j, sql.v)

\* a result building that hands every reply without error to the
\* extraction, the empty one included
ResultOfExtractingEmpty(g) ==
    IF ~g.ok THEN Failure("AI API error: " \o g.error)
    ELSE FromText(g.text)

\* what generateQuery returns once generate_text has returned g
ResultOf(g) ==
    IF ~g.ok THEN Failure("AI API error: " \o g.error)
    ELSE IF g.text = <<>> THEN Failure("Empty response from AI service")
    ELSE FromText(g.text)

GenError(e) == [ok |-> FALSE, error |-> e, text |-> <<>>]
GenText(t)  == [ok |-> TRUE, error |-> "", text |-> t]
NoGen       == [ok |-> FALSE, error |-> "", text |-> <<>>]

-----------------------------------------------------------------------------
(* Logger (logger.cpp): every level returns at once while the flag is off. *)

\* a logger that emits whatever the flag says
EmitAlways(lg, level, message) == Append(lg, <<level, message>>)

Emit(lg, level, message) ==
    IF ~logging_enabled THEN lg ELSE Append(lg, <<level, message>>)

RECURSIVE EmitAll(_, _)
EmitAll(lg, entries) ==
    IF entries = <<>> THEN lg
    ELSE EmitAll(Emit(lg, Head(entries)[1], Head(entries)[2]), Tail(entries))

-----------------------------------------------------------------------------
(* ConfigManager as generateQuery uses it.                                 *)

\* a null const ProviderConfig*
NoEntry == [present |-> FALSE, api_key |-> "", default_model |-> ""]

Entry(key, model) == [present |-> TRUE, api_key |-> key, default_model |-> model]

getProviderConfig(cfg, provider) ==
    IF provider = "OPENAI" THEN cfg.openai ELSE cfg.anthropic

providerToString(provider) ==
    IF provider = "OPENAI" THEN "openai"
    ELSE IF provider = "ANTHROPIC" THEN "anthropic"
    ELSE "unknown"

\* a null const ModelConfig*
NoModel == [present |-> FALSE, max_tokens |-> 0, temperature |-> ""]

getModelConfig(cfg, name) ==
    IF name \in DOMAIN cfg.models THEN cfg.models[name] ELSE NoModel

-----------------------------------------------------------------------------
(* generateQuery (multi-provider): provider and credential resolution.     *)

\* the locals after the resolution, or the QueryResult it returned
Resolved(provider, pcfg, key, source, logs) ==
    [returned |-> FALSE, result |-> NoResult, selected_provider |-> provider,
     provider_config |-> pcfg, api_key |-> key, api_key_source |-> source,
     logs |-> logs]

Returned(res, logs) ==
    [returned |-> TRUE, result |-> res, selected_provider |-> "",
     provider_config |-> NoEntry, api_key |-> "", api_key_source |-> "",
     logs |-> logs]

OtherProvider(provider) == IF provider = "OPENAI" THEN "ANTHROPIC" ELSE "OPENAI"

\* a resolution that borrows the other provider's configured credential when
\* the requested provider has none
ResolveExplicitBorrowing(req, cfg, provider) ==
    LET pcfg  == getProviderConfig(cfg, provider)
        other == getProviderConfig(cfg, OtherProvider(provider))
    IN IF req.api_key = "" /\ pcfg.present /\ pcfg.api_key # ""
       THEN Resolved(provider, pcfg, pcfg.api_key, "config", <<>>)
       ELSE IF req.api_key = "" /\ other.present /\ other.api_key # ""
       THEN Resolved(provider, pcfg, other.api_key, "config", <<>>)
       ELSE Resolved(provider, pcfg, req.api_key, "parameter", <<>>)

\* the branches for provider_preference == "openai" and == "anthropic"
ResolveExplicit(req, cfg, provider) ==
    LET pcfg == getProviderConfig(cfg, provider)
        name == providerToString(provider)
    IN IF req.api_key = "" /\ pcfg.present /\ pcfg.api_key # ""
       THEN Resolved(provider, pcfg, pcfg.api_key, name \o "_config",
                <<<<"info", "Explicit " \o name \o " provider selection from parameter">>,
                  <<"info", "Using " \o name \o " API key from configuration">>>>)
       ELSE Resolved(provider, pcfg, req.api_key, "parameter",
                <<<<"info", "Explicit " \o name \o " provider selection from parameter">>>>)

\* an automatic resolution in which a configured credential replaces the
\* credential passed as parameter
ResolveAutoConfigFirst(req, cfg) ==
    LET openai_config == getProviderConfig(cfg, "OPENAI")
        anthropic_config == getProviderConfig(cfg, "ANTHROPIC")
    IN IF openai_config.present /\ openai_config.api_key # ""
       THEN Resolved("OPENAI", openai_config, openai_config.api_key,
                "openai_config", <<>>)
       ELSE IF anthropic_config.present /\ anthropic_config.api_key # ""
       THEN Resolved("ANTHROPIC", anthropic_config, anthropic_config.api_key,
                "anthropic_config", <<>>)
       ELSE IF req.api_key # ""
       THEN Resolved("OPENAI", openai_config, req.api_key, "parameter", <<>>)
       ELSE Returned(
                Failure("API key required. Pass as 4th parameter or set OpenAI or Anthropic API key in ~/.pg_ai.config."),
                <<>>)

\* an automatic resolution that looks at the Anthropic credential first
ResolveAutoAnthropicFirst(req, cfg) ==
    LET openai_config == getProviderConfig(cfg, "OPENAI")
        anthropic_config == getProviderConfig(cfg, "ANTHROPIC")
    IN IF req.api_key # ""
       THEN Resolved("OPENAI", openai_config, req.api_key, "parameter", <<>>)
       ELSE IF anthropic_config.present /\ anthropic_config.api_key # ""
       THEN Resolved("ANTHROPIC", anthropic_config, anthropic_config.api_key,
                "anthropic_config", <<>>)
       ELSE IF openai_config.present /\ openai_config.api_key # ""
       THEN Resolved("OPENAI", openai_config, openai_config.api_key,
                "openai_config", <<>>)
       ELSE Returned(
                Failure("API key required. Pass as 4th parameter or set OpenAI or Anthropic API key in ~/.pg_ai.config."),
                <<>>)

\* the else branch: any other provider_preference
ResolveAuto(req, cfg) ==
    IF req.api_key = ""
    THEN LET openai_config == getProviderConfig(cfg, "OPENAI")
             anthropic_config == getProviderConfig(cfg, "ANTHROPIC")
         IN IF openai_config.present /\ openai_config.api_key # ""
            THEN Resolved("OPENAI", openai_config, openai_config.api_key,
                     "openai_config",
                     <<<<"info", "Auto-selecting OpenAI provider based on configuration">>>>)
            ELSE IF anthropic_config.present /\ anthropic_config.api_key # ""
            THEN Resolved("ANTHROPIC", anthropic_config,
                     anthropic_config.api_key, "anthropic_config",
                     <<<<"info", "Auto-selecting Anthropic provider based on configuration">>>>)
            ELSE Returned(
                     Failure("API key required. Pass as 4th parameter or set OpenAI or Anthropic API key in ~/.pg_ai.config."),
                     <<<<"warning", "No API key found in config">>>>)
    ELSE Resolved("OPENAI", getProviderConfig(cfg, "OPENAI"), req.api_key,
             "parameter",
             <<<<"info", "Auto-selecting OpenAI provider (API key provided, no provider specified)">>>>)

\* a resolution without the test of api_key.empty()
CheckApiKeySkipped(r) == r

\* the test of api_key.empty() that follows the three branches
CheckApiKey(r) ==
    IF r.returned THEN r
    ELSE IF r.api_key = ""
    THEN Returned(
             Failure("No API key available for "
                     \o providerToString(r.selected_provider)
                     \o " provider. Please provide API key as parameter or configure it in ~/.pg_ai.config."),
             r.logs)
    ELSE r

\* a resolution that rejects a preference it does not know
ResolveRejectingUnknown(req, cfg) ==
    CheckApiKey(
        IF req.provider = "openai" THEN ResolveExplicit(req, cfg, "OPENAI")
        ELSE IF req.provider = "anthropic" THEN ResolveExplicit(req, cfg, "ANTHROPIC")
        ELSE IF req.provider = "auto" THEN ResolveAuto(req, cfg)
        ELSE Returned(Failure("Unknown provider: " \o req.provider), <<>>))

Resolve(req, cfg) ==
    CheckApiKey(
        IF req.provider = "openai" THEN ResolveExplicit(req, cfg, "OPENAI")
        ELSE IF req.provider = "anthropic" THEN ResolveExplicit(req, cfg, "ANTHROPIC")
        ELSE ResolveAuto(req, cfg))

-----------------------------------------------------------------------------
(* buildPrompt, and the model and options that go with the client.         *)

\* a prompt that has a Table line even for an empty table name
buildPromptTableAlways(req) ==
    "Generate a PostgreSQL query for this request:\n\n"
    \o "Request: " \o req.natural_language \o "\n"
    \o "Table: " \o req.table_name \o "\n"
    \o (IF req.schema_context # ""
        THEN "Schema info:\n" \o req.schema_context \o "\n" ELSE "")

buildPrompt(req) ==
    "Generate a PostgreSQL query for this request:\n\n"
    \o "Request: " \o req.natural_language \o "\n"
    \o (IF req.table_name # "" THEN "Table: " \o req.table_name \o "\n" ELSE "")
    \o (IF req.schema_context # ""
        THEN "Schema info:\n" \o req.schema_context \o "\n" ELSE "")

\* prompts::SYSTEM_PROMPT
SYSTEM_PROMPT == "SYSTEM_PROMPT"

\* a model choice that knows only the built-in defaults
ModelNameBuiltInOnly(provider, pcfg) ==
    IF provider = "ANTHROPIC" THEN "claude-3-5-sonnet-20241022" ELSE "gpt-4o"

\* model_name as the try block around create_client sets it
ModelName(provider, pcfg) ==
    IF provider = "OPENAI"
    THEN IF pcfg.present /\ pcfg.default_model # ""
         THEN pcfg.default_model ELSE "gpt-4o"
    ELSE IF provider = "ANTHROPIC"
    THEN IF pcfg.present /\ pcfg.default_model # ""
         THEN pcfg.default_model ELSE "claude-3-5-sonnet-20241022"
    ELSE "gpt-4o"

\* which factory built the client
ClientFor(provider, key) ==
    [created |-> TRUE,
     factory |-> IF provider = "ANTHROPIC" THEN "ai::anthropic" ELSE "ai::openai",
     api_key |-> key]

NoClient == [created |-> FALSE, factory |-> "", api_key |-> ""]

\* an optional option the generator did not set
Unset == [set |-> FALSE, max_tokens |-> 0, temperature |-> ""]

\* ai::GenerateOptions options(model_name, system_prompt, prompt) and the
\* two assignments made when getModelConfig found an entry
Options(cfg, name, system, p) ==
    LET model_config == getModelConfig(cfg, name)
    IN [model |-> name, system |-> system, prompt |-> p,
        params |-> IF model_config.present
                   THEN [set |-> TRUE, max_tokens |-> model_config.max_tokens,
                         temperature |-> model_config.temperature]
                   ELSE Unset]

NoOptions == [model |-> "", system |-> "", prompt |-> "", params |-> Unset]

-----------------------------------------------------------------------------
(* The single-provider generateQuery: its helpers.  Its extractor works on *)
(* the characters of the reply.                                            *)

FenceChars == <<"BQ","BQ","BQ">>
cSqlMarker == <<"s","q","l">>

IsSpaceChar(ch) == ch \in {" ", "\n", "\t", "\r"}

\* pat occurs in cs at position i
At(cs, i, pat) ==
    i >= 1 /\ i + Len(pat) - 1 <= Len(cs) /\ SubSeq(cs, i, i + Len(pat) - 1) = pat

\* the same under std::regex::icase
AtIcase(cs, i, pat) ==
    i >= 1 /\ i + Len(pat) - 1 <= Len(cs)
    /\ ToLower(SubSeq(cs, i, i + Len(pat) - 1)) = pat

SkipSpaces(cs, i) ==
    LET rest == {j \in i..Len(cs) : ~IsSpaceChar(cs[j])}
    IN IF rest = {} THEN Len(cs) + 1
       ELSE CHOOSE j \in rest : \A x \in rest : j <= x

MinOf(S) == CHOOSE x \in S : \A y \in S : x <= y

\* sql_block_regex  ```(?:sql)?\s*([\s\S]*?)\s*```  : the leftmost fence that
\* has another fence after it; match[1] is the shortest run after the marker
\* and the whitespace that is followed by whitespace and a fence
SqlBlockSearch(cs) ==
    LET starts == {i \in 1..Len(cs) :
                     At(cs, i, FenceChars)
                     /\ \E j \in (i + 3)..Len(cs) : At(cs, j, FenceChars)}
    IN IF starts = {} THEN NoMatch
       ELSE LET i == MinOf(starts)
                p == IF AtIcase(cs, i + 3, cSqlMarker)
                        /\ \E j \in (i + 6)..Len(cs) : At(cs, j, FenceChars)
                     THEN i + 6 ELSE i + 3
                q == SkipSpaces(cs, p)
                e == MinOf({x \in (q - 1)..Len(cs) :
                              At(cs, SkipSpaces(cs, x + 1), FenceChars)})
            IN [found |-> TRUE, cap |-> SubSeq(cs, q, e)]

\* select_regex  (SELECT[\s\S]*?)(?:\n\n|\Z)  where the build takes \Z as the
\* letter Z: the leftmost SELECT that has a terminator after it, up to the
\* first such terminator
SelectSearch(cs) ==
    LET Term(b) == At(cs, b, <<"\n","\n">>) \/ ToLowerChar(cs[b]) = "z"
        starts == {a \in 1..Len(cs) :
                     AtIcase(cs, a, kwSelect)
                     /\ \E b \in (a + 6)..Len(cs) : Term(b)}
    IN IF starts = {} THEN NoMatch
       ELSE LET a == MinOf(starts)
                b == MinOf({x \in (a + 6)..Len(cs) : Term(x)})
            IN [found |-> TRUE, cap |-> SubSeq(cs, a, b - 1)]

\* extractSQLFromResponse of the single-provider source.  \Z is no escape of
\* the ECMAScript grammar: a build whose library rejects it throws
\* regex_error when select_regex is constructed (strict), another takes it as
\* the letter Z.
legacyExtractSQLFromResponse(cs, strict) ==
    IF SqlBlockSearch(cs).found THEN Ret(SqlBlockSearch(cs).cap)
    ELSE IF strict THEN Throw("regex_error")
    ELSE IF SelectSearch(cs).found THEN Ret(SelectSearch(cs).cap)
    ELSE Ret(cs)

\* a std::string of the given characters, as a text
TextOf(cs) == IF cs = <<>> THEN <<>> ELSE <<Word(cs)>>

\* "Query generated using GPT-4"
legacyExplanation ==
    <<Word(<<"Q","u","e","r","y">>), SP,
      Word(<<"g","e","n","e","r","a","t","e","d">>), SP,
      Word(<<"u","s","i","n","g">>), SP, Word(<<"G","P","T","-","4">>)>>

\* a single-provider result building that hands every reply without error
\* to the extraction, the empty one included
legacyResultOfExtractingEmpty(g, strict) ==
    IF ~g.ok THEN Failure("AI API error: " \o g.error)
    ELSE LET x == legacyExtractSQLFromResponse(Chars(g.text), strict)
         IN IF x.thrown THEN Exception(x.what)
            ELSE [generated_query |-> TextOf(x.v),
                  explanation |-> legacyExplanation,
                  warnings |-> <<>>,
                  row_limit_applied |-> FALSE,
                  suggested_visualization |-> <<>>,
                  success |-> TRUE,
                  error_message |-> ""]

\* what the single-provider generateQuery returns once generate_text has
\* returned g; the call of isSafeQuery is commented out in the source
legacyResultOf(g, strict) ==
    IF ~g.ok THEN Failure("AI API error: " \o g.error)
    ELSE IF g.text = <<>> THEN Failure("Empty response from AI service")
    ELSE LET x == legacyExtractSQLFromResponse(Chars(g.text), strict)
         IN IF x.thrown THEN Exception(x.what)
            ELSE [generated_query |-> TextOf(x.v),
                  explanation |-> legacyExplanation,
                  warnings |-> <<>>,
                  row_limit_applied |-> FALSE,
                  suggested_visualization |-> <<>>,
                  success |-> TRUE,
                  error_message |-> ""]

legacyBuildPrompt(req) ==
    "Generate a PostgreSQL SELECT query for this request:\n\n"
    \o "Request: " \o req.natural_language \o "\n"
    \o (IF req.table_name # "" THEN "Table: " \o req.table_name \o "\n" ELSE "")
    \o (IF req.schema_context # ""
        THEN "Schema info:\n" \o req.schema_context \o "\n" ELSE "")
    \o "\nRequirements:\n"
    \o "- ONLY SELECT queries (no INSERT, UPDATE, DELETE, DROP, etc.)\n"
    \o "- Use proper PostgreSQL syntax\n"
    \o "- Include appropriate WHERE clauses for performance\n"
    \o "- Add LIMIT when appropriate\n"
    \o "- Return only the SQL query, no explanations\n"

\* std::getenv("OPENAI_API_KEY"): a null pointer when the variable is unset
EnvUnset == [set |-> FALSE, value |-> ""]
EnvSet(v) == [set |-> TRUE, value |-> v]

\* a resolution in which the environment variable, when set, comes before
\* the parameter
legacyResolveEnvFirst(req, env) ==
    IF env.set
    THEN Resolved("OPENAI", NoEntry, env.value, "environment", <<>>)
    ELSE IF req.api_key # ""
    THEN Resolved("OPENAI", NoEntry, req.api_key, "parameter", <<>>)
    ELSE Returned(
             Failure("OpenAI API key required. Pass as 4th parameter or set OPENAI_API_KEY environment variable."),
             <<>>)

\* the locals after the single-provider credential resolution
legacyResolve(req, env) ==
    IF req.api_key # ""
    THEN Resolved("OPENAI", NoEntry, req.api_key, "parameter", <<>>)
    ELSE IF env.set
    THEN Resolved("OPENAI", NoEntry, env.value, "environment",
             <<<<"info", "Using environment API key: " \o env.value \o "...">>>>)
    ELSE Returned(
             Failure("OpenAI API key required. Pass as 4th parameter or set OPENAI_API_KEY environment variable."),
             <<<<"warning", "No OPENAI_API_KEY environment variable found">>>>)

legacySystemPrompt ==
    "You are a PostgreSQL query generator. Generate safe, read-only SQL queries from natural language."

-----------------------------------------------------------------------------
(* pg_generate_query, the SQL function that calls generateQuery.           *)

\* an argument of the SQL call: NULL (PG_ARGISNULL) or a text
Null   == [null |-> TRUE, value |-> ""]
Arg(v) == [null |-> FALSE, value |-> v]

\* arg ? text_to_cstring(arg) : default
OrDefault(arg, default) == IF arg.null THEN default ELSE arg.value

\* the QueryRequest built from the arguments, nl_query being the text read
\* from the first one
RequestOf(nl_query, a) ==
    [natural_language |-> nl_query,
     table_name       |-> OrDefault(a.table_name, ""),
     schema_context   |-> OrDefault(a.schema_context, ""),
     api_key          |-> OrDefault(a.api_key, ""),
     provider         |-> OrDefault(a.provider, "auto")]

\* "NUL" stands for the character of code 0
cNUL == "NUL"

HasNul(x) == \E n \in DOMAIN x.s : x.s[n] = cNUL

\* the characters of cs before the first NUL
UpToNul(cs) ==
    LET nuls == {n \in DOMAIN cs : cs[n] = cNUL}
    IN IF nuls = {} THEN cs
       ELSE SubSeq(cs, 1, (CHOOSE n \in nuls : \A m \in nuls : n <= m) - 1)

\* cstring_to_text(s.c_str()): the text of s up to its first NUL character
RECURSIVE CStr(_)
CStr(txt) ==
    IF txt = <<>> THEN <<>>
    ELSE LET x == Head(txt)
         IN IF HasNul(x)
            THEN IF UpToNul(x.s) = <<>> THEN <<>>
                 ELSE <<[x EXCEPT !.s = UpToNul(x.s)]>>
            ELSE <<x>> \o CStr(Tail(txt))

\* how the SQL call ended.  kind is "none" while it runs, "text" when
\* PG_RETURN_TEXT_P was reached, "error" when ereport(ERROR) was, "crash"
\* when the backend process died
NoDatum == [kind |-> "none", text |-> <<>>, errmsg |-> "", notice |-> <<>>]
ReturnedText(t, notice) ==
    [kind |-> "text", text |-> t, errmsg |-> "", notice |-> notice]
Raised(msg) == [kind |-> "error", text |-> <<>>, errmsg |-> msg, notice |-> <<>>]
Crashed == [kind |-> "crash", text |-> <<>>, errmsg |-> "", notice |-> <<>>]

\* a DatumOf that returns the text whatever the result says
DatumOfIgnoringFailure(res) ==
    ReturnedText(CStr(res.generated_query), CStr(res.explanation))

\* from the test of result.success to the end of pg_generate_query
DatumOf(res) ==
    IF ~res.success
    THEN Raised("Query generation failed: " \o res.error_message)
    ELSE ReturnedText(CStr(res.generated_query), CStr(res.explanation))

\* generateQuery called directly: no SQL call around it
NoArgs == [natural_language_query |-> Null, table_name |-> Null,
           schema_context |-> Null, api_key |-> Null, provider |-> Null]

NoRequest == [natural_language |-> "", table_name |-> "", schema_context |-> "",
              api_key |-> "", provider |-> ""]

-----------------------------------------------------------------------------
(* Inputs: requests, configurations, environments, provider replies.       *)

\* how many pieces a candidate of the safety check is made of
MaxPieces == 2
\* how many segments of free text precede and follow the block of a reply
MaxPad == 1

Requests ==
    [natural_language : {"", "show all users"},
     table_name       : {"", "users"},
     schema_context   : {"", "id int, name text"},
     api_key          : {"", "sk-param"},
     provider         : {"openai", "anthropic", "auto", "", "OpenAI", "gemini"}]

ModelConfig(tokens, temp) ==
    [present |-> TRUE, max_tokens |-> tokens, temperature |-> temp]

ModelTables ==
    { <<>>,
      [n \in {"gpt-4o", "claude-3-5-sonnet-20241022"} |->
          IF n = "gpt-4o" THEN ModelConfig(4096, "0.7") ELSE ModelConfig(8192, "0.5")],
      [n \in {"gpt-4o-mini", "claude-3-haiku"} |->
          IF n = "gpt-4o-mini" THEN ModelConfig(1024, "0.2") ELSE ModelConfig(2048, "0.3")] }

ProviderEntries(key, model) ==
    {NoEntry} \cup {Entry(k, m) : k \in {"", key}, m \in {"", model}}

Configs ==
    [openai    : ProviderEntries("sk-openai-cfg", "gpt-4o-mini"),
     anthropic : ProviderEntries("sk-ant-cfg", "claude-3-haiku"),
     models    : ModelTables]

\* a configuration with no provider entry and no model entry
EmptyConfig == [openai |-> NoEntry, anthropic |-> NoEntry, models |-> <<>>]

\* values of OPENAI_API_KEY, shorter than the ten characters the log keeps
Environments == {EnvUnset, EnvSet(""), EnvSet("sk-env")}

cSELECT == <<"S","E","L","E","C","T">>
cDROP   == <<"D","R","O","P">>
cTABLE  == <<"T","A","B","L","E">>
cUsers  == <<"u","s","e","r","s">>
cHere   == <<"H","e","r","e">>

SelectOne == <<Word(cSELECT), SP, Word(<<"1">>)>>
DropTable == <<Word(cDROP), SP, Word(cTABLE), SP, Word(cUsers)>>
SelectThenDrop == SelectOne \o <<Word(<<";">>), SP>> \o DropTable

\* an object of one member, as the provider writes it
ObjectText(key, valueText) == <<LBrace, Str(key), Colon>> \o valueText \o <<RBrace>>

\* a fenced block with the "json" marker
Fenced(content) == <<Fence, Word(cJson), NL>> \o content \o <<NL, Fence>>

\* the replies the full pipeline is run on
CoreReplies ==
    { <<>>,
      Fenced(ObjectText(kSql, <<Str(SelectOne)>>)),
      ObjectText(kSql, <<Str(SelectOne)>>),
      Fenced(ObjectText(kSql, <<Str(DropTable)>>)),
      Fenced(ObjectText(kSql, <<Str(<<>>)>>)),
      ObjectText(kExplanation, <<Str(SelectOne)>>),
      <<Lit(<<"4","2">>)>>,
      SelectOne,
      DropTable,
      <<Fence, Word(cSqlMarker), NL>> \o SelectOne \o <<NL, Fence>>,
      <<Fence, Fence>>,
      <<Word(cHere), NL>> \o SelectThenDrop \o <<NL, NL, Word(cHere)>> }

\* error texts of the provider; one is also the text create_client throws
ProviderErrors == {"rate limit exceeded", "invalid API key"}

CoreOutcomes ==
    {GenError(e) : e \in ProviderErrors} \cup {GenText(t) : t \in CoreReplies}

-----------------------------------------------------------------------------
(* The call, step by step.                                                 *)

Locals == <<api_key, api_key_source, selected_provider, provider_config,
            prompt, client, model_name, options, gen, invocations>>
Inputs == <<impl, request, config, env_api_key>>
Safety == <<query, verdict>>
Caller == <<args, datum, recovered, versions>>

\* Logger::setLoggingEnabled, called by the configuration manager before a call
SetLoggingEnabled ==
    /\ pc = "start"
    /\ \E enabled \in BOOLEAN : logging_enabled' = enabled
    /\ UNCHANGED <<Inputs, Caller, Locals, Safety, log, pc, result>>

\* a start that does not test the request
StartWithoutCheck ==
    /\ pc = "start"
    /\ pc' = "resolving_provider"
    /\ UNCHANGED <<Inputs, Caller, Locals, Safety, logging_enabled, log, result>>

\* the test of request.natural_language.empty(), in both sources
Start ==
    /\ pc = "start"
    /\ IF request.natural_language = ""
       THEN /\ result' = Failure("Natural language query cannot be empty")
            /\ pc' = "done"
       ELSE /\ pc' = "resolving_provider"
            /\ UNCHANGED result
    /\ UNCHANGED <<Inputs, Caller, Locals, Safety, logging_enabled, log>>

\* the locals r of a resolution become the state of the call
Adopt(r) ==
    /\ log' = EmitAll(log, r.logs)
    /\ IF r.returned
       THEN /\ result' = r.result
            /\ pc' = "done"
            /\ UNCHANGED <<api_key, api_key_source, selected_provider,
                           provider_config>>
       ELSE /\ api_key' = r.api_key
            /\ api_key_source' = r.api_key_source
            /\ selected_provider' = r.selected_provider
            /\ provider_config' = r.provider_config
            /\ pc' = "building_prompt"
            /\ UNCHANGED result

ResolveProvider ==
    /\ pc = "resolving_provider"
    /\ impl = "multi"
    /\ Adopt(Resolve(request, config))
    /\ UNCHANGED <<Inputs, Caller, Safety, logging_enabled, prompt, client, model_name,
                   options, gen, invocations>>

LegacyResolveKey ==
    /\ pc = "resolving_provider"
    /\ impl = "legacy"
    /\ Adopt(legacyResolve(request, env_api_key))
    /\ UNCHANGED <<Inputs, Caller, Safety, logging_enabled, prompt, client, model_name,
                   options, gen, invocations>>

BuildPrompt ==
    /\ pc = "building_prompt"
    /\ prompt' = IF impl = "multi" THEN buildPrompt(request)
                 ELSE legacyBuildPrompt(request)
    /\ pc' = "creating_client"
    /\ UNCHANGED <<Inputs, Caller, Safety, logging_enabled, log, api_key, api_key_source,
                   selected_provider, provider_config, client, model_name,
                   options, gen, invocations, result>>

\* a client creation whose failure is reported with the message of a
\* provider error
CreateClientAsProviderError ==
    /\ pc = "creating_client"
    /\ impl = "multi"
    /\ \E thrown \in BOOLEAN :
         IF thrown
         THEN /\ log' = log
              /\ result' = Failure("AI API error: invalid API key")
              /\ pc' = "done"
              /\ UNCHANGED <<client, model_name>>
         ELSE /\ client' = ClientFor(selected_provider, api_key)
              /\ model_name' = ModelName(selected_provider, provider_config)
              /\ log' = log
              /\ pc' = "configuring"
              /\ UNCHANGED result
    /\ UNCHANGED <<Inputs, Caller, Safety, logging_enabled, api_key, api_key_source,
                   selected_provider, provider_config, prompt, options, gen,
                   invocations>>

\* create_client of the selected provider returns, or throws what
CreateClient ==
    /\ pc = "creating_client"
    /\ impl = "multi"
    /\ \E thrown \in BOOLEAN :
         IF thrown
         THEN /\ log' = EmitAll(log,
                    <<<<"info", "Creating " \o providerToString(selected_provider) \o " client">>,
                      <<"error", "Failed to create " \o providerToString(selected_provider)
                                 \o " client: invalid API key">>>>)
              /\ result' = Exception("Failed to create AI client: invalid API key")
              /\ pc' = "done"
              /\ UNCHANGED <<client, model_name>>
         ELSE /\ client' = ClientFor(selected_provider, api_key)
              /\ model_name' = ModelName(selected_provider, provider_config)
              /\ log' = EmitAll(log,
                    <<<<"info", "Creating " \o providerToString(selected_provider) \o " client">>,
                      <<"info", "Using " \o providerToString(selected_provider)
                                \o " provider with model: "
                                \o ModelName(selected_provider, provider_config)>>>>)
              /\ pc' = "configuring"
              /\ UNCHANGED result
    /\ UNCHANGED <<Inputs, Caller, Safety, logging_enabled, api_key, api_key_source,
                   selected_provider, provider_config, prompt, options, gen,
                   invocations>>

LegacyCreateClient ==
    /\ pc = "creating_client"
    /\ impl = "legacy"
    /\ \E thrown \in BOOLEAN :
         IF thrown
         THEN /\ log' = EmitAll(log,
                    <<<<"info", "Creating OpenAI client">>,
                      <<"error", "Failed to create OpenAI client: invalid API key">>>>)
              /\ result' = Exception("Failed to create OpenAI client: invalid API key")
              /\ pc' = "done"
              /\ UNCHANGED <<client, model_name>>
         ELSE /\ client' = ClientFor("OPENAI", api_key)
              /\ model_name' = "gpt-4o"
              /\ log' = Emit(log, "info", "Creating OpenAI client")
              /\ pc' = "configuring"
              /\ UNCHANGED result
    /\ UNCHANGED <<Inputs, Caller, Safety, logging_enabled, api_key, api_key_source,
                   selected_provider, provider_config, prompt, options, gen,
                   invocations>>

\* the GenerateOptions, with the model's parameters when it has an entry
Configure ==
    /\ pc = "configuring"
    /\ options' = IF impl = "multi"
                  THEN Options(config, model_name, SYSTEM_PROMPT, prompt)
                  ELSE [model |-> model_name, system |-> legacySystemPrompt,
                        prompt |-> prompt, params |-> Unset]
    /\ log' = IF impl = "legacy" THEN log
              ELSE IF getModelConfig(config, model_name).present
              THEN Emit(log, "info", "Using model: " \o model_name
                          \o " with max_tokens and temperature of its entry")
              ELSE Emit(log, "info", "Using model: " \o model_name
                          \o " with default settings")
    /\ pc' = "invoking_provider"
    /\ UNCHANGED <<Inputs, Caller, Safety, logging_enabled, api_key, api_key_source,
                   selected_provider, provider_config, prompt, client,
                   model_name, gen, invocations, result>>

\* client.generate_text(options) returns one of outcomes
Invoke(outcomes) ==
    /\ pc = "invoking_provider"
    /\ \E g \in outcomes : gen' = g
    /\ invocations' = invocations + 1
    /\ pc' = "parsing_response"
    /\ UNCHANGED <<Inputs, Caller, Safety, logging_enabled, log, api_key, api_key_source,
                   selected_provider, provider_config, prompt, client,
                   model_name, options, result>>

InvokeProvider == Invoke(CoreOutcomes)

\* from the test of the generate_text result to the return
ParseResponse ==
    /\ pc = "parsing_response"
    /\ impl = "multi"
    /\ result' = ResultOf(gen)
    /\ pc' = "done"
    /\ UNCHANGED <<Inputs, Caller, Locals, Safety, logging_enabled, log>>

LegacyParseResponse ==
    /\ pc = "parsing_response"
    /\ impl = "legacy"
    /\ \E strict \in BOOLEAN : result' = legacyResultOf(gen, strict)
    /\ pc' = "done"
    /\ UNCHANGED <<Inputs, Caller, Locals, Safety, logging_enabled, log>>

NoLocals ==
    /\ api_key = ""
    /\ api_key_source = ""
    /\ selected_provider = ""
    /\ provider_config = NoEntry
    /\ prompt = ""
    /\ client = NoClient
    /\ model_name = ""
    /\ options = NoOptions
    /\ gen = NoGen
    /\ invocations = 0
    /\ result = NoResult

NoCaller ==
    /\ args = NoArgs
    /\ datum = NoDatum
    /\ recovered = NoResult
    /\ versions = <<config>>

Init ==
    /\ impl \in {"multi", "legacy"}
    /\ request \in Requests
    /\ config \in Configs
    /\ env_api_key \in Environments
    /\ impl = "multi" => env_api_key = EnvUnset
    /\ impl = "legacy" => config = EmptyConfig /\ request.provider = "auto"
    /\ logging_enabled = FALSE
    /\ log = <<>>
    /\ pc = "start"
    /\ NoLocals
    /\ NoCaller
    /\ query = <<>>
    /\ verdict = FALSE

Next ==
    \/ SetLoggingEnabled
    \/ Start
    \/ ResolveProvider
    \/ LegacyResolveKey
    \/ BuildPrompt
    \/ CreateClient
    \/ LegacyCreateClient
    \/ Configure
    \/ InvokeProvider
    \/ ParseResponse
    \/ LegacyParseResponse

Spec == Init /\ [][Next]_vars

-----------------------------------------------------------------------------
(* The pipeline on a wide family of replies: one request, every reply.     *)

Absent == [t |-> "absent"]

RECURSIVE RenderValue(_)
RECURSIVE RenderElements(_)
RECURSIVE RenderMembers(_)
RECURSIVE RenderMap(_)

\* the text of a JSON value
RenderValue(v) ==
    IF v.t = "string" THEN <<Str(v.c)>>
    ELSE IF v.t = "boolean" THEN <<Lit(IF v.b THEN cTrue ELSE cFalse)>>
    ELSE IF v.t = "number" THEN <<Lit(v.n)>>
    ELSE IF v.t = "array" THEN <<LBracket>> \o RenderElements(v.a) \o <<RBracket>>
    ELSE IF v.t = "object" THEN <<LBrace>> \o RenderMap(v.m) \o <<RBrace>>
    ELSE <<Lit(cNull)>>

\* the members of an object value, one after the other
RenderMap(m) ==
    IF DOMAIN m = {} THEN <<>>
    ELSE LET k    == CHOOSE x \in DOMAIN m : TRUE
             rest == [x \in (DOMAIN m) \ {k} |-> m[x]]
         IN <<Str(k), Colon>> \o RenderValue(m[k])
            \o (IF DOMAIN rest = {} THEN <<>> ELSE <<Comma>> \o RenderMap(rest))

RenderElements(a) ==
    IF a = <<>> THEN <<>>
    ELSE IF Len(a) = 1 THEN RenderValue(a[1])
    ELSE RenderValue(a[1]) \o <<Comma>> \o RenderElements(Tail(a))

\* ms is a sequence of <<key, value>>
RenderMembers(ms) ==
    IF ms = <<>> THEN <<>>
    ELSE IF Len(ms) = 1 THEN <<Str(ms[1][1]), Colon>> \o RenderValue(ms[1][2])
    ELSE <<Str(ms[1][1]), Colon>> \o RenderValue(ms[1][2]) \o <<Comma>>
         \o RenderMembers(Tail(ms))

RenderObject(ms) == <<LBrace>> \o RenderMembers(ms) \o <<RBrace>>

Member(key, choice) == IF choice = Absent THEN <<>> ELSE << <<key, choice>> >>

tExplained == <<Word(<<"l","i","s","t","s">>), SP, Word(cUsers)>>
tWarnOne   == <<Word(<<"o","n","l","y">>), SP, Word(<<"o","n","e">>), SP,
                Word(<<"w","a","r","n","i","n","g">>)>>
tWarnTwo   == <<Word(<<"n","o">>), SP, Word(<<"L","I","M","I","T">>)>>
tChart     == <<Word(<<"b","a","r">>)>>
tYes       == <<Word(<<"y","e","s">>)>>
n42        == <<"4","2">>
kNote      == Key(<<"n","o","t","e">>)

SqlChoices  == {Absent, JStr(<<>>), JStr(SelectOne), JStr(DropTable), JNum(n42), JNull}
ExplChoices == {<<>>, << <<kExplanation, JStr(tExplained)>> >>,
                << <<kExplaination, JStr(tExplained)>> >>}
WarnChoices == {Absent, JStr(tWarnOne), JArr(<<JStr(tWarnOne)>>),
                JArr(<<JStr(tWarnOne), JStr(tWarnTwo)>>), JArr(<<>>),
                JNum(n42), JNull, JArr(<<JStr(tWarnOne), JNum(n42)>>),
                JObj(PutMember(<<>>, kNote, JStr(tWarnOne)))}
RowChoices  == {Absent, JBool(TRUE), JStr(tYes)}
VizChoices  == {Absent, JStr(tChart), JNum(n42)}

\* the member lists of the replies' objects, keys in the contract's order
ObjectMembers ==
    { Member(kSql, s) \o e \o Member(kWarnings, w) \o Member(kRowLimit, r)
        \o Member(kVisualization, v) :
      s \in SqlChoices, e \in ExplChoices, w \in WarnChoices,
      r \in RowChoices, v \in VizChoices }

PadSegments == {Word(cHere), NL, Fence, LBrace, RBrace}
Pads == UNION {[1..n -> PadSegments] : n \in 0..MaxPad}

CoreContents ==
    { ObjectText(kSql, <<Str(SelectOne)>>),
      ObjectText(kSql, <<Str(<<>>)>>),
      <<LBrace, RBrace>>,
      <<LBrace, Word(cHere), RBrace>>,
      <<Lit(n42)>>,
      <<Str(SelectOne)>>,
      <<LBracket, Str(SelectOne), RBracket>>,
      <<Lit(cTrue)>>,
      <<Lit(cNull)>>,
      SelectOne,
      <<>> }

Markers == {<<>>, <<Word(cJson)>>, <<Word(<<"J","S","O","N">>)>>, <<Word(cSqlMarker)>>}
Gaps == {<<>>, <<NL>>}

CoreBlocks ==
    CoreContents \cup
    { <<Fence>> \o m \o g \o c \o g \o <<Fence>> :
        m \in Markers, g \in Gaps, c \in CoreContents }

RichReplies ==
    {RenderObject(ms) : ms \in ObjectMembers}
    \cup {Fenced(RenderObject(ms)) : ms \in ObjectMembers}
    \cup {pre \o b \o post : pre \in Pads, post \in Pads, b \in CoreBlocks}

RichOutcomes ==
    {GenError(e) : e \in ProviderErrors} \cup {GenText(t) : t \in RichReplies}

InvokeProviderX == Invoke(RichOutcomes)

InitX ==
    /\ impl = "multi"
    /\ request = [natural_language |-> "show all users", table_name |-> "users",
                  schema_context |-> "", api_key |-> "sk-param", provider |-> "auto"]
    /\ config = EmptyConfig
    /\ env_api_key = EnvUnset
    /\ logging_enabled = FALSE
    /\ log = <<>>
    /\ pc = "start"
    /\ NoLocals
    /\ NoCaller
    /\ query = <<>>
    /\ verdict = FALSE

\* the canonical reply of a result: the fenced JSON object with the keys of
\* the output contract, every field written
Canonical(res) ==
    Fenced(RenderObject(
        << <<kSql, JStr(res.generated_query)>>,
           <<kExplanation, JStr(res.explanation)>>,
           <<kWarnings, JArr([n \in DOMAIN res.warnings |-> JStr(res.warnings[n])])>>,
           <<kRowLimit, JBool(res.row_limit_applied)>>,
           <<kVisualization, JStr(res.suggested_visualization)>> >>))

\* the extraction and result building run again, on the canonical reply of
\* the success result just returned
Reextract ==
    /\ pc = "done"
    /\ result.success
    /\ recovered' = FromText(Canonical(result))
    /\ pc' = "reextracted"
    /\ UNCHANGED <<Inputs, Locals, Safety, args, datum, versions, logging_enabled,
                   log, result>>

NextX ==
    \/ Start
    \/ ResolveProvider
    \/ BuildPrompt
    \/ CreateClient
    \/ Configure
    \/ InvokeProviderX
    \/ ParseResponse
    \/ Reextract

SpecX == InitX /\ [][NextX]_vars

-----------------------------------------------------------------------------
(* buildPrompt on requests whose texts hold quotes, backslashes, newlines   *)
(* and the words of the prompt itself.                                      *)

PromptRequests ==
    [natural_language : {"", "show all users",
                         "it's \"x\" \\ <b>; DROP TABLE users; --"},
     table_name       : {"", "users", "a'b\"c", "Table: t\nSchema info:"},
     schema_context   : {"", "id int, name text", "Request: {\"sql\":\"x\"}\n\\n"},
     api_key          : {"sk-param"},
     provider         : {"auto"}]

InitPrompt ==
    /\ impl \in {"multi", "legacy"}
    /\ request \in PromptRequests
    /\ config = EmptyConfig
    /\ env_api_key = EnvUnset
    /\ logging_enabled = FALSE
    /\ log = <<>>
    /\ pc = "start"
    /\ NoLocals
    /\ NoCaller
    /\ query = <<>>
    /\ verdict = FALSE

NextPrompt ==
    \/ Start
    \/ ResolveProvider
    \/ LegacyResolveKey
    \/ BuildPrompt

SpecPrompt == InitPrompt /\ [][NextPrompt]_vars

-----------------------------------------------------------------------------
(* The SQL call: pg_generate_query around the multi-provider generateQuery. *)

\* pg_generate_query up to its call of generateQuery.  The function is not
\* declared STRICT and reads its first argument without PG_ARGISNULL: for a
\* NULL first argument text_to_cstring reads through a null pointer, which
\* ends the backend process or yields some text.
PgGenerateQuery ==
    /\ pc = "binding"
    /\ IF args.natural_language_query.null
       THEN \/ /\ datum' = Crashed
               /\ pc' = "crashed"
               /\ UNCHANGED request
            \/ /\ \E garbage \in {"", "show all users"} :
                     request' = RequestOf(garbage, args)
               /\ pc' = "start"
               /\ UNCHANGED datum
       ELSE /\ request' = RequestOf(args.natural_language_query.value, args)
            /\ pc' = "start"
            /\ UNCHANGED datum
    /\ UNCHANGED <<impl, config, env_api_key, args, recovered, versions, Locals, Safety,
                   logging_enabled, log, result>>

\* pg_generate_query after generateQuery has returned
PgReturn ==
    /\ pc = "done"
    /\ datum' = DatumOf(result)
    /\ pc' = IF result.success THEN "returned" ELSE "raised"
    /\ UNCHANGED <<Inputs, args, recovered, versions, Locals, Safety, logging_enabled, log,
                   result>>

\* the arguments of SELECT pg_generate_query(...): each a text or NULL
BindingArgs ==
    [natural_language_query : {Null, Arg(""), Arg("show all users")},
     table_name             : {Null, Arg(""), Arg("users")},
     schema_context         : {Null, Arg("id int, name text")},
     api_key                : {Null, Arg(""), Arg("sk-param")},
     provider               : {Null, Arg("auto"), Arg("anthropic")}]

OpenAIConfigured ==
    [openai |-> Entry("sk-openai-cfg", ""), anthropic |-> NoEntry, models |-> <<>>]

InitBinding ==
    /\ impl = "multi"
    /\ args \in BindingArgs
    /\ request = NoRequest
    /\ config \in {EmptyConfig, OpenAIConfigured}
    /\ env_api_key = EnvUnset
    /\ logging_enabled = FALSE
    /\ log = <<>>
    /\ pc = "binding"
    /\ NoLocals
    /\ datum = NoDatum
    /\ recovered = NoResult
    /\ versions = <<config>>
    /\ query = <<>>
    /\ verdict = FALSE

NextBinding ==
    \/ PgGenerateQuery
    \/ Start
    \/ ResolveProvider
    \/ BuildPrompt
    \/ CreateClient
    \/ Configure
    \/ InvokeProvider
    \/ ParseResponse
    \/ PgReturn

SpecBinding == InitBinding /\ [][NextBinding]_vars

-----------------------------------------------------------------------------
(* A configuration reload while a call of generateQuery runs.              *)

\* how many reloads a behaviour has
MaxReloads == 1

OldConfig ==
    [openai    |-> Entry("sk-openai-cfg", "gpt-4o-mini"),
     anthropic |-> Entry("sk-ant-cfg", ""),
     models    |-> [n \in {"gpt-4o-mini"} |-> ModelConfig(1024, "0.2")]]

NewConfig ==
    [openai    |-> Entry("sk-openai-new", "gpt-4o"),
     anthropic |-> NoEntry,
     models    |-> [n \in {"gpt-4o", "gpt-4o-mini"} |->
                      IF n = "gpt-4o" THEN ModelConfig(4096, "0.7")
                      ELSE ModelConfig(2048, "0.3")]]

ReloadConfigs == {OldConfig, NewConfig, EmptyConfig}

\* ConfigManager replaces its whole configuration by another in one step.
\* A call that holds a ProviderConfig pointer into the replaced structure
\* reads through a dangling pointer from then on: it finds the old entry or
\* the entry that took its place.
ReloadConfig ==
    /\ pc # "done"
    /\ Len(versions) <= MaxReloads
    /\ \E next \in ReloadConfigs \ {config} :
         /\ config' = next
         /\ versions' = Append(versions, next)
         /\ provider_config' \in
               IF provider_config.present
                  /\ getProviderConfig(next, selected_provider).present
               THEN {provider_config, getProviderConfig(next, selected_provider)}
               ELSE {provider_config}
    /\ UNCHANGED <<impl, request, env_api_key, args, datum, recovered, Safety,
                   logging_enabled, log, pc, api_key, api_key_source,
                   selected_provider, prompt, client, model_name, options, gen,
                   invocations, result>>

ReloadRequests ==
    [natural_language : {"show all users"},
     table_name       : {""},
     schema_context   : {""},
     api_key          : {"", "sk-param"},
     provider         : {"openai", "anthropic", "auto"}]

InitReload ==
    /\ impl = "multi"
    /\ request \in ReloadRequests
    /\ config \in ReloadConfigs
    /\ env_api_key = EnvUnset
    /\ logging_enabled = FALSE
    /\ log = <<>>
    /\ pc = "start"
    /\ NoLocals
    /\ NoCaller
    /\ query = <<>>
    /\ verdict = FALSE

NextReload ==
    \/ ReloadConfig
    \/ Start
    \/ ResolveProvider
    \/ BuildPrompt
    \/ CreateClient
    \/ Configure
    \/ InvokeProvider
    \/ ParseResponse

SpecReload == InitReload /\ [][NextReload]_vars

-----------------------------------------------------------------------------
(* isSafeQuery on its own: every candidate made of a few pieces.           *)

Pieces ==
    { kwSelect, cSELECT, <<"S","e","l","e","c","t">>, <<"s","e","l">>, <<"e","c","t">>,
      <<" ">>, <<"x">>, <<" ","f","r","o","m"," ","t">>,
      <<"I","N","S","E","R","T">>, kwUpdate, <<"D","e","l","e","t","e">>,
      kwDrop, <<" ","D","R","O","P"," ","T","A","B","L","E"," ","t">>,
      kwCreate, <<" ","c","r","e","a","t","e","d","_","a","t">>,
      <<"A","L","T","E","R">>, kwTruncate, <<"G","r","a","n","t">>, kwRevoke,
      kwExec, <<"E","X","E","C","U","T","E">>, <<"u","t","e">> }

RECURSIVE Concat(_)
Concat(ps) == IF ps = <<>> THEN <<>> ELSE Head(ps) \o Concat(Tail(ps))

Candidates == {Concat(ps) : ps \in UNION {[1..n -> Pieces] : n \in 0..MaxPieces}}

Validate ==
    /\ pc = "validating"
    /\ verdict' = isSafeQuery(query)
    /\ pc' = "validated"
    /\ UNCHANGED <<Inputs, Caller, Locals, logging_enabled, log, result, query>>

InitSafe ==
    /\ impl = "legacy"
    /\ request = [natural_language |-> "", table_name |-> "",
                  schema_context |-> "", api_key |-> "", provider |-> "auto"]
    /\ config = EmptyConfig
    /\ env_api_key = EnvUnset
    /\ logging_enabled = FALSE
    /\ log = <<>>
    /\ pc = "validating"
    /\ NoLocals
    /\ NoCaller
    /\ query \in Candidates
    /\ verdict = FALSE

NextSafe == Validate

SpecSafe == InitSafe /\ [][NextSafe]_vars

-----------------------------------------------------------------------------
(* Properties.                                                             *)

CallReturned == pc = "done"
AfterResolution == pc \notin {"start", "resolving_provider"}

MsgEmptyInput == "Natural language query cannot be empty"
MsgNoSQL      == "No SQL found in model response"
MsgNoKeyAuto  ==
    "API key required. Pass as 4th parameter or set OpenAI or Anthropic API key in ~/.pg_ai.config."
MsgNoKeyFor(name) ==
    "No API key available for " \o name
    \o " provider. Please provide API key as parameter or configure it in ~/.pg_ai.config."

\* C1: a result with success = true carries a generated_query that the
\* SafetyValidator accepts: every path to success validates the candidate.
C1_SuccessIsSafe ==
    (CallReturned /\ result.success) => isSafeQuery(Chars(result.generated_query))

\* C2: a call with an empty natural_language returns the EmptyInput failure
\* whatever the other fields and the configuration are; nothing of the
\* credential resolution has happened, no client exists and the provider
\* was not invoked.
C2_EmptyInput ==
    (request.natural_language = "" /\ pc # "start") =>
        /\ pc = "done"
        /\ result = Failure(MsgEmptyInput)
        /\ api_key = "" /\ selected_provider = ""
        /\ ~client.created
        /\ invocations = 0

\* the C2 case: an empty request in a configuration that holds no credential
C2_Witness ==
    /\ pc = "done"
    /\ impl = "multi"
    /\ request.natural_language = ""
    /\ request.api_key = ""
    /\ config.openai = NoEntry /\ config.anthropic = NoEntry
    /\ result.error_message = MsgEmptyInput

PreferenceEnum == IF request.provider = "openai" THEN "OPENAI" ELSE "ANTHROPIC"
PreferenceName == IF request.provider = "openai" THEN "openai" ELSE "anthropic"
OwnEntry == IF request.provider = "openai" THEN config.openai ELSE config.anthropic
Usable(entry) == entry.present /\ entry.api_key # ""

\* C3: with an explicit provider P the credential is the explicit one if
\* supplied, else P's configured one; with neither the call fails with the
\* MissingCredential message naming P.  The other provider is never
\* selected and its credential never used.
C3_ExplicitProvider ==
    (/\ impl = "multi"
     /\ request.provider \in {"openai", "anthropic"}
     /\ request.natural_language # ""
     /\ AfterResolution) =>
        IF request.api_key # ""
        THEN /\ selected_provider = PreferenceEnum
             /\ api_key = request.api_key
             /\ client.created => client = ClientFor(PreferenceEnum, request.api_key)
        ELSE IF Usable(OwnEntry)
        THEN /\ selected_provider = PreferenceEnum
             /\ api_key = OwnEntry.api_key
             /\ client.created => client = ClientFor(PreferenceEnum, OwnEntry.api_key)
        ELSE /\ pc = "done"
             /\ result = Failure(MsgNoKeyFor(PreferenceName))
             /\ ~client.created
             /\ invocations = 0

\* the C3 case: "anthropic" asked for, no explicit credential, only an
\* OpenAI credential configured
C3_Witness ==
    /\ pc = "done"
    /\ request.provider = "anthropic"
    /\ request.api_key = ""
    /\ Usable(config.openai)
    /\ ~Usable(config.anthropic)
    /\ result = Failure(MsgNoKeyFor("anthropic"))

\* C4: with preference "auto" and an explicit credential the OpenAI provider
\* is selected and the explicit credential is used, in every configuration.
C4_AutoExplicitKey ==
    (/\ impl = "multi"
     /\ request.provider = "auto"
     /\ request.api_key # ""
     /\ request.natural_language # ""
     /\ AfterResolution) =>
        /\ selected_provider = "OPENAI"
        /\ api_key = request.api_key
        /\ client.created => client = ClientFor("OPENAI", request.api_key)

\* the C4 case: only an Anthropic credential is configured and the provider
\* is invoked through an OpenAI client holding the explicit credential
C4_Witness ==
    /\ pc = "parsing_response"
    /\ request.provider = "auto"
    /\ request.api_key # ""
    /\ ~Usable(config.openai)
    /\ Usable(config.anthropic)
    /\ client = ClientFor("OPENAI", request.api_key)
    /\ invocations = 1

\* C5: with preference "auto" and no explicit credential: OpenAI with its
\* configured credential if there is one, else Anthropic with its
\* configured credential if there is one, else the MissingCredential
\* failure that singles out no provider, and no provider call.
C5_AutoFromConfig ==
    (/\ impl = "multi"
     /\ request.provider = "auto"
     /\ request.api_key = ""
     /\ request.natural_language # ""
     /\ AfterResolution) =>
        IF Usable(config.openai)
        THEN /\ selected_provider = "OPENAI"
             /\ api_key = config.openai.api_key
             /\ client.created => client = ClientFor("OPENAI", config.openai.api_key)
        ELSE IF Usable(config.anthropic)
        THEN /\ selected_provider = "ANTHROPIC"
             /\ api_key = config.anthropic.api_key
             /\ client.created =>
                    client = ClientFor("ANTHROPIC", config.anthropic.api_key)
        ELSE /\ pc = "done"
             /\ result = Failure(MsgNoKeyAuto)
             /\ result.error_message \notin {MsgNoKeyFor("openai"), MsgNoKeyFor("anthropic")}
             /\ selected_provider = ""
             /\ ~client.created
             /\ invocations = 0

\* the C5 case: both credentials configured, OpenAI's is the one used
C5_Witness ==
    /\ pc = "parsing_response"
    /\ request.provider = "auto"
    /\ request.api_key = ""
    /\ Usable(config.openai) /\ Usable(config.anthropic)
    /\ client = ClientFor("OPENAI", config.openai.api_key)

\* a is the letter b in either case, or the same character
SameIgnoringCase(a, b) ==
    a = b \/ \E n \in DOMAIN LowerCase :
                {a, b} \subseteq {LowerCase[n], UpperCase[n]}

\* kw occurs in q as a substring, in any letter case
OccursInAnyCase(q, kw) ==
    \E i \in 1..Len(q) :
        /\ i + Len(kw) - 1 <= Len(q)
        /\ \A n \in 1..Len(kw) : SameIgnoringCase(q[i + n - 1], kw[n])

DenyList == {kwInsert, kwUpdate, kwDelete, kwDrop, kwCreate, kwAlter,
             kwTruncate, kwGrant, kwRevoke, kwExec, kwExecute}

\* C6: isSafeQuery accepts a candidate exactly when it is not empty,
\* contains "select" in any letter case and contains no deny-list keyword
\* as a substring in any letter case.
C6_ValidatorPolicy ==
    pc = "validated" =>
        (verdict <=> /\ query # <<>>
                     /\ OccursInAnyCase(query, kwSelect)
                     /\ \A kw \in DenyList : ~OccursInAnyCase(query, kw))

\* the C6 case: DROP TABLE after a SELECT, rejected
C6_Witness ==
    /\ pc = "validated"
    /\ ~verdict
    /\ query = cSELECT \o <<" ","D","R","O","P"," ","T","A","B","L","E"," ","t">>

\* the sql values of the fenced blocks of a text: the blocks opened by a
\* fence and a json marker in any letter case, closed by a fence, whose
\* content is a JSON object with a string member sql that is not empty
FencedSql(text) ==
    { JsonParse(SubSeq(text, i + 2, j - 1)).v.m[kSql].c :
        <<i, j>> \in { <<a, b>> \in (1..Len(text)) \X (1..Len(text)) :
            /\ a + 1 < b
            /\ text[a] = Fence /\ text[b] = Fence
            /\ text[a + 1].k = "word"
            /\ \A n \in 1..4 : Len(text[a + 1].s) = 4
                               /\ SameIgnoringCase(text[a + 1].s[n], cJson[n])
            /\ LET r == JsonParse(SubSeq(text, a + 2, b - 1))
               IN /\ r.ok
                  /\ r.v.t = "object"
                  /\ kSql \in DOMAIN r.v.m
                  /\ r.v.m[kSql].t = "string"
                  /\ r.v.m[kSql].c # <<>> } }

\* C7: a reply that contains a fenced json block whose content is an object
\* with a non-empty string sql gives success = true and that sql as
\* generated_query, whatever surrounds the block.
C7_FencedBlockWins ==
    (CallReturned /\ gen.ok /\ FencedSql(gen.text) # {}) =>
        /\ result.success
        /\ result.generated_query \in FencedSql(gen.text)

\* the contents of the fenced blocks of a text: what lies between two
\* fences, after the marker if the opening fence has one
FencedContents(text) ==
    { SubSeq(text, IF IsJsonMarker(text[p[1] + 1]) THEN p[1] + 2 ELSE p[1] + 1,
             p[2] - 1) :
        p \in { <<a, b>> \in (1..Len(text)) \X (1..Len(text)) :
                  a < b /\ text[a] = Fence /\ text[b] = Fence } }

\* C8: a non-empty reply none of whose fenced blocks parses and whose whole
\* text is no JSON gives success = true with the raw text, verbatim, as
\* generated_query.
C8_RawFallback ==
    (/\ CallReturned /\ gen.ok /\ gen.text # <<>>
     /\ \A c \in FencedContents(gen.text) : ~JsonParse(c).ok
     /\ ~JsonParse(gen.text).ok) =>
        /\ result.success
        /\ result.generated_query = gen.text

\* the C8 case: a fenced block in braces that does not parse, returned with
\* its fences
C8_Witness ==
    /\ CallReturned /\ result.success
    /\ RegexSearch(gen.text).found
    /\ ~JsonParse(RegexSearch(gen.text).cap).ok
    /\ result.generated_query = gen.text

\* the object parsed from the fenced block or, failing that, from the whole
\* text; ok is FALSE when neither parses
Structured(text) ==
    LET m == RegexSearch(text)
    IN IF m.found /\ JsonParse(m.cap).ok THEN JsonParse(m.cap)
       ELSE JsonParse(text)

SqlAbsentOrEmpty(j) ==
    /\ j.t = "object"
    /\ \/ kSql \notin DOMAIN j.m
       \/ j.m[kSql] = JStr(<<>>)

\* C9: when a JSON object is parsed from the reply and its sql is absent or
\* the empty string, the result is the NoSQLExtracted failure, not the
\* raw-text fallback.
C9_NoSqlExtracted ==
    (/\ CallReturned /\ gen.ok /\ gen.text # <<>>
     /\ Structured(gen.text).ok
     /\ SqlAbsentOrEmpty(Structured(gen.text).v)) =>
        result = Failure(MsgNoSQL)

\* the C9 case: a fenced object whose sql is the empty string
C9_Witness ==
    /\ CallReturned
    /\ gen.text = Fenced(ObjectText(kSql, <<Str(<<>>)>>))
    /\ result = Failure(MsgNoSQL)

\* C10: the warnings of a parsed reply become a list of strings: a single
\* string w gives the list of w alone, a list of strings gives the same
\* strings in the same order.
C10_WarningsNormalised ==
    (/\ CallReturned /\ result.success
     /\ Structured(gen.text).ok
     /\ kWarnings \in DOMAIN Structured(gen.text).v.m) =>
        LET w == Structured(gen.text).v.m[kWarnings]
        IN /\ w.t = "string" => result.warnings = <<w.c>>
           /\ (w.t = "array" /\ \A n \in DOMAIN w.a : w.a[n].t = "string") =>
                 /\ Len(result.warnings) = Len(w.a)
                 /\ \A n \in DOMAIN w.a : result.warnings[n] = w.a[n].c

\* the C10 case: the warnings given as one string
C10_Witness ==
    /\ CallReturned /\ result.success
    /\ Structured(gen.text).ok
    /\ kWarnings \in DOMAIN Structured(gen.text).v.m
    /\ Structured(gen.text).v.m[kWarnings] = JStr(tWarnOne)
    /\ result.warnings = <<tWarnOne>>

\* a JSON object was parsed from the reply and its sql is a string that is
\* not empty
ParsedWithSql ==
    /\ gen.ok /\ gen.text # <<>>
    /\ Structured(gen.text).ok
    /\ Structured(gen.text).v.t = "object"
    /\ kSql \in DOMAIN Structured(gen.text).v.m
    /\ Structured(gen.text).v.m[kSql].t = "string"
    /\ Structured(gen.text).v.m[kSql].c # <<>>

Omits(j, key) == key \notin DOMAIN j.m
Has(j, key, type) == key \in DOMAIN j.m /\ j.m[key].t = type

\* C11: when the parsed object has a non-empty sql, the success result has
\* the empty list for omitted warnings, false for an omitted
\* row_limit_applied and "table" for an omitted suggested_visualization; a
\* member that is present gives its own value, whatever the other members
\* are; and an object that omits all three does give a success result.
C11_FieldDefaults ==
    (CallReturned /\ ParsedWithSql) =>
        LET j == Structured(gen.text).v
        IN /\ (/\ Omits(j, kWarnings) /\ Omits(j, kRowLimit)
               /\ Omits(j, kVisualization)) => result.success
           /\ result.success =>
                /\ Omits(j, kWarnings) => result.warnings = <<>>
                /\ Omits(j, kRowLimit) => result.row_limit_applied = FALSE
                /\ Omits(j, kVisualization) =>
                      result.suggested_visualization = <<Word(<<"t","a","b","l","e">>)>>
                /\ Has(j, kWarnings, "string") =>
                      result.warnings = <<j.m[kWarnings].c>>
                /\ Has(j, kRowLimit, "boolean") =>
                      result.row_limit_applied = j.m[kRowLimit].b
                /\ Has(j, kVisualization, "string") =>
                      result.suggested_visualization = j.m[kVisualization].c

\* the C11 case: row_limit_applied is given, warnings and
\* suggested_visualization are omitted
C11_Witness ==
    /\ CallReturned /\ ParsedWithSql /\ result.success
    /\ Has(Structured(gen.text).v, kRowLimit, "boolean")
    /\ Omits(Structured(gen.text).v, kWarnings)
    /\ Omits(Structured(gen.text).v, kVisualization)
    /\ result.row_limit_applied = TRUE
    /\ result.warnings = <<>>
    /\ result.suggested_visualization = vizTable

\* C12: every QueryResult a call returns has either success with a
\* generated_query that is not empty and an empty error_message, or failure
\* with an error_message that is not empty and an empty generated_query.
C12_ResultExclusive ==
    CallReturned =>
        \/ /\ result.success
           /\ result.generated_query # <<>>
           /\ result.error_message = ""
        \/ /\ ~result.success
           /\ result.error_message # ""
           /\ result.generated_query = <<>>

\* the same, for the multi-provider generateQuery alone
MultiResultExclusive == impl = "multi" => C12_ResultExclusive

\* every field of the result holds a value
Populated(res) ==
    /\ res.generated_query # <<>>
    /\ res.explanation # <<>>
    /\ res.warnings # <<>>
    /\ res.suggested_visualization # <<>>

\* C13: a success result with every field populated, written as the
\* canonical fenced JSON object (keys sql, explanation, warnings,
\* row_limit_applied, suggested_visualization) and extracted again, gives a
\* success result with the same five field values.
C13_RoundTrip ==
    (pc = "reextracted" /\ Populated(result)) =>
        /\ recovered.success
        /\ recovered.generated_query = result.generated_query
        /\ recovered.explanation = result.explanation
        /\ recovered.warnings = result.warnings
        /\ recovered.row_limit_applied = result.row_limit_applied
        /\ recovered.suggested_visualization = result.suggested_visualization

\* the round trip but for the explanation
RoundTripButExplanation ==
    (pc = "reextracted" /\ Populated(result)) =>
        /\ recovered.success
        /\ recovered.generated_query = result.generated_query
        /\ recovered.explanation = <<>>
        /\ recovered.warnings = result.warnings
        /\ recovered.row_limit_applied = result.row_limit_applied
        /\ recovered.suggested_visualization = result.suggested_visualization

\* the stage of the specification a position of the call belongs to: the
\* client and its options are made ready as part of invoking the provider
StageOf(p) ==
    IF p \in {"creating_client", "configuring"} THEN "invoking_provider" ELSE p

StageOrder ==
    <<"start", "resolving_provider", "building_prompt", "invoking_provider",
      "parsing_response", "validating_safety", "done">>

\* the stages generateQuery has
StageOrderOfTheCode ==
    <<"start", "resolving_provider", "building_prompt", "invoking_provider",
      "parsing_response", "done">>

\* stage b directly follows stage a in order
Follows(order, a, b) ==
    \E n \in 1..(Len(order) - 1) : order[n] = a /\ order[n + 1] = b

\* a step of the call along order: to the next stage, or from any stage to
\* the terminal failure; one provider invocation at most, none after an
\* error of the provider; nothing changes once the call is done
Linear(order) ==
    /\ StageOf(pc') # StageOf(pc) =>
          \/ Follows(order, StageOf(pc), StageOf(pc'))
          \/ pc' = "done" /\ ~result'.success
    /\ invocations' <= 1
    /\ (invocations = 1 /\ ~gen.ok) =>
          /\ invocations' = 1
          /\ pc' = "done" /\ ~result'.success
    /\ pc = "parsing_response" => pc' = "done"
    /\ pc = "done" => UNCHANGED <<pc, result, invocations>>

\* C14: a call moves through start, resolving_provider, building_prompt,
\* invoking_provider, parsing_response, validating_safety, done in that
\* order, a failure leading from any stage to done; the provider is invoked
\* at most once, a provider error leads to the failure with no second
\* invocation, and the call is over once done is reached.
C14_StageOrder == [][Linear(StageOrder)]_vars

\* the same without the validating_safety stage
LinearAsCoded == [][Linear(StageOrderOfTheCode)]_vars

\* where a call that is done stopped
StoppedAtInput == CallReturned /\ request.natural_language = ""
\* the request brings no credential and there is none to take its place
CredentialMissing ==
    /\ request.api_key = ""
    /\ IF impl = "legacy" THEN ~env_api_key.set
       ELSE IF request.provider \in {"openai", "anthropic"} THEN ~Usable(OwnEntry)
       ELSE ~Usable(config.openai) /\ ~Usable(config.anthropic)

StoppedAtCredential ==
    CallReturned /\ request.natural_language # "" /\ CredentialMissing
StoppedAtClient == CallReturned /\ prompt # "" /\ ~client.created
StoppedAtProvider == CallReturned /\ invocations = 1 /\ ~gen.ok
StoppedAtEmptyReply == CallReturned /\ gen.ok /\ gen.text = <<>>

\* the result is a failure that carries msg and nothing else
OnlyMessage(msg) ==
    /\ ~result.success
    /\ result.error_message = msg
    /\ result.generated_query = <<>>
    /\ result.explanation = <<>>
    /\ result.warnings = <<>>

\* C15: a failure ends the call at once.  After an empty input or a
\* credential failure no prompt is built, no client is created and the
\* provider is not called; after a client creation failure the provider is
\* not called; after a provider error or an empty reply no extraction runs
\* (the result is the failure of that stage, not one of the extraction); and
\* every failure result has an error message and an empty generated_query,
\* explanation and warnings.
C15_ShortCircuit ==
    /\ (StoppedAtInput \/ StoppedAtCredential) =>
          /\ prompt = "" /\ ~client.created /\ options = NoOptions
          /\ invocations = 0 /\ gen = NoGen
          /\ ~result.success
    /\ StoppedAtClient =>
          /\ options = NoOptions /\ invocations = 0 /\ gen = NoGen
          /\ ~result.success
    /\ StoppedAtProvider => OnlyMessage("AI API error: " \o gen.error)
    /\ StoppedAtEmptyReply => OnlyMessage("Empty response from AI service")
    /\ (CallReturned /\ ~result.success) => OnlyMessage(result.error_message)
    /\ (CallReturned /\ ~result.success) => result.error_message # ""

\* the C15 case: the provider replied with no text and the call stopped there
C15_Witness ==
    /\ StoppedAtEmptyReply
    /\ OnlyMessage("Empty response from AI service")
    /\ invocations = 1

\* another C15 case: no credential, and nothing ran after the resolution
StoppedAtCredentialReached ==
    StoppedAtCredential /\ ~result.success /\ ~client.created /\ invocations = 0

\* std::string tests on messages
StartsWith(s, p) == Len(s) >= Len(p) /\ SubSeq(s, 1, Len(p)) = p
Contains(s, p) ==
    \E n \in 1..(Len(s) - Len(p) + 1) : SubSeq(s, n, n + Len(p) - 1) = p

MsgProviderError == "AI API error: "
MsgClientCreation == "Failed to create AI client"

\* C16: a failure of the client construction and an error of the generation
\* call give different messages: the first never starts with
\* "AI API error: " and is followed by no provider call, the second never
\* holds "Failed to create AI client"; the multi-provider source reports the
\* first with "Failed to create AI client" and the second with
\* "AI API error: ".
C16_DistinctErrorKinds ==
    /\ StoppedAtClient =>
          /\ ~result.success
          /\ ~StartsWith(result.error_message, MsgProviderError)
          /\ impl = "multi" => Contains(result.error_message, MsgClientCreation)
          /\ invocations = 0
    /\ StoppedAtProvider =>
          /\ ~result.success
          /\ StartsWith(result.error_message, MsgProviderError)
          /\ ~Contains(result.error_message, MsgClientCreation)

\* the C16 case: create_client threw "invalid API key" in the multi-provider
\* source
C16_Witness ==
    /\ StoppedAtClient /\ impl = "multi"
    /\ result.error_message = "Exception: Failed to create AI client: invalid API key"
    /\ invocations = 0

\* the other C16 case: the provider answered with the error "invalid API key"
ProviderErrorReached ==
    /\ StoppedAtProvider
    /\ result.error_message = "AI API error: invalid API key"

\* an accessor of the multi-provider source throws on the parsed value: it
\* is no object, or a member read with value() has another type than its
\* default
AccessorFault ==
    /\ impl = "multi" /\ gen.ok /\ gen.text # <<>>
    /\ Structured(gen.text).ok
    /\ LET j == Structured(gen.text).v
       IN \/ j.t # "object"
          \/ /\ j.t = "object"
             /\ \/ kSql \in DOMAIN j.m /\ j.m[kSql].t # "string"
                \/ /\ Has(j, kSql, "string") /\ j.m[kSql].c # <<>>
                   /\ \/ kExplaination \in DOMAIN j.m /\ j.m[kExplaination].t # "string"
                      \/ kRowLimit \in DOMAIN j.m /\ j.m[kRowLimit].t # "boolean"
                      \/ kVisualization \in DOMAIN j.m /\ j.m[kVisualization].t # "string"

NoSqlFault ==
    /\ impl = "multi" /\ gen.ok /\ gen.text # <<>>
    /\ Structured(gen.text).ok
    /\ SqlAbsentOrEmpty(Structured(gen.text).v)

\* C17: every fault of a call (empty input, missing credential, client
\* creation failure, provider error, empty reply, no SQL extracted, an
\* exception thrown by an accessor or any other step) is returned as a
\* result with success=false and a message that is not empty; a returned
\* call always has a result that is a success or carries a message.
C17_FaultsBecomeFailures ==
    CallReturned =>
        /\ (\/ StoppedAtInput \/ StoppedAtCredential \/ StoppedAtClient
            \/ StoppedAtProvider \/ StoppedAtEmptyReply
            \/ NoSqlFault \/ AccessorFault) =>
              /\ ~result.success
              /\ result.error_message # ""
        /\ result.success \/ result.error_message # ""

\* the C17 case: the reply is the JSON number 42, on which value() throws;
\* the exception is returned as a failure
C17_Witness ==
    /\ CallReturned /\ AccessorFault
    /\ gen.text = <<Lit(n42)>>
    /\ result = Failure("Exception: [json.exception.type_error.306]")

\* C18: when the multi-provider generator is about to call the provider,
\* max_tokens and temperature are set in its options: to the values of the
\* ModelConfig entry of the selected model when there is one, to defaults
\* otherwise; they are never left unset.
C18_ParamsAlwaysSet ==
    (pc = "invoking_provider" /\ impl = "multi") =>
        /\ options.params.set
        /\ model_name \in DOMAIN config.models =>
              /\ options.params.max_tokens = config.models[model_name].max_tokens
              /\ options.params.temperature = config.models[model_name].temperature

\* what the code does: the parameters are set exactly when the selected
\* model has an entry, and then to the values of the entry
ParamsSetFromEntryOnly ==
    (pc = "invoking_provider" /\ impl = "multi") =>
        IF model_name \in DOMAIN config.models
        THEN options.params = [set |-> TRUE,
                               max_tokens |-> config.models[model_name].max_tokens,
                               temperature |-> config.models[model_name].temperature]
        ELSE ~options.params.set

\* a line of the user block, and one that is there only for a text that is
\* not empty
PromptLine(label, text) == label \o text \o "\n"
OptionalLine(label, text) == IF text = "" THEN "" ELSE PromptLine(label, text)

\* what precedes and what follows the user's texts in the prompt
PromptHead ==
    IF impl = "multi" THEN "Generate a PostgreSQL query for this request:\n\n"
    ELSE "Generate a PostgreSQL SELECT query for this request:\n\n"
PromptTail ==
    IF impl = "multi" THEN ""
    ELSE "\nRequirements:\n"
         \o "- ONLY SELECT queries (no INSERT, UPDATE, DELETE, DROP, etc.)\n"
         \o "- Use proper PostgreSQL syntax\n"
         \o "- Include appropriate WHERE clauses for performance\n"
         \o "- Add LIMIT when appropriate\n"
         \o "- Return only the SQL query, no explanations\n"

PromptBuilt == pc \notin {"start", "resolving_provider", "building_prompt"} /\ prompt # ""

\* C19: the user block is the request, then the table name if it is not
\* empty, then the schema context if it is not empty, in this order, each
\* text as given; an empty table name or schema context adds nothing.
C19_PromptOrder ==
    PromptBuilt =>
        prompt = PromptHead
                 \o PromptLine("Request: ", request.natural_language)
                 \o OptionalLine("Table: ", request.table_name)
                 \o OptionalLine("Schema info:\n", request.schema_context)
                 \o PromptTail

\* the C19 case: a table name with quotes and no schema context
C19_Witness ==
    /\ PromptBuilt
    /\ request.table_name = "a'b\"c"
    /\ request.schema_context = ""
    /\ Contains(prompt, "Table: a'b\"c\n")
    /\ ~Contains(prompt, "Schema info:")

SqlCallEnded == pc \in {"returned", "raised"}
SqlCallStarted == pc \notin {"binding", "crashed"}

SqlCallRaised ==
    /\ pc = "raised"
    /\ datum = Raised("Query generation failed: Natural language query cannot be empty")

\* what a call that read everything from the configuration v would hold
\* when it invokes the provider
ReadFrom(v) ==
    LET entry == IF selected_provider = "OPENAI" THEN v.openai ELSE v.anthropic
        builtin == IF selected_provider = "OPENAI" THEN "gpt-4o"
                   ELSE "claude-3-5-sonnet-20241022"
    IN /\ api_key_source # "parameter" =>
             /\ Usable(entry)
             /\ api_key = entry.api_key
       /\ model_name = IF entry.present /\ entry.default_model # ""
                       THEN entry.default_model ELSE builtin
       /\ IF model_name \in DOMAIN v.models
          THEN options.params = [set |-> TRUE,
                                 max_tokens |-> v.models[model_name].max_tokens,
                                 temperature |-> v.models[model_name].temperature]
          ELSE ~options.params.set

\* C21: with reloads of the configuration going on, what a call has read
\* when it invokes the provider (the credential and default model of the
\* ProviderConfig, the parameters of the ModelConfig) comes from one
\* configuration version, the old one or a new one, never from a mix.
C21_OneVersion ==
    (pc = "invoking_provider" /\ impl = "multi") =>
        \E n \in DOMAIN versions : ReadFrom(versions[n])

\* the same for calls during which no reload happened
OneVersionWithoutReload ==
    (pc = "invoking_provider" /\ impl = "multi" /\ Len(versions) = 1) =>
        ReadFrom(versions[1])

\* the results a call can return for its request, configuration,
\* environment, client and provider reply; the logging flag and what was
\* logged are no part of it
ResultsWhateverTheLogging ==
    IF request.natural_language = "" THEN {Failure(MsgEmptyInput)}
    ELSE LET r == IF impl = "multi" THEN Resolve(request, config)
                  ELSE legacyResolve(request, env_api_key)
         IN IF r.returned THEN {r.result}
            ELSE IF ~client.created
            THEN {IF impl = "multi"
                  THEN Exception("Failed to create AI client: invalid API key")
                  ELSE Exception("Failed to create OpenAI client: invalid API key")}
            ELSE IF impl = "multi" THEN {ResultOf(gen)}
            ELSE {legacyResultOf(gen, strict) : strict \in BOOLEAN}

MsgNoKeyLegacy ==
    "OpenAI API key required. Pass as 4th parameter or set OPENAI_API_KEY environment variable."

\* C23: the single-provider generator uses the api_key parameter when it is
\* not empty, else the value of OPENAI_API_KEY when the variable is set,
\* else it fails with the "OpenAI API key required" message, no client
\* created and no provider call made; the environment never replaces a
\* parameter that is not empty.
C23_LegacyCredential ==
    (/\ impl = "legacy"
     /\ request.natural_language # ""
     /\ AfterResolution) =>
        IF request.api_key # ""
        THEN /\ api_key = request.api_key
             /\ client.created => client.api_key = request.api_key
        ELSE IF env_api_key.set
        THEN /\ api_key = env_api_key.value
             /\ client.created => client.api_key = env_api_key.value
        ELSE /\ pc = "done"
             /\ result = Failure(MsgNoKeyLegacy)
             /\ ~client.created
             /\ invocations = 0

\* the C23 case: parameter and environment both given, the parameter is used
C23_Witness ==
    /\ impl = "legacy"
    /\ request.api_key = "sk-param"
    /\ env_api_key = EnvSet("sk-env")
    /\ client.created
    /\ client.api_key = "sk-param"
    /\ invocations = 1

\* other C23 cases: the environment value used, and the failure
LegacyEnvironmentKeyUsed ==
    /\ impl = "legacy" /\ request.api_key = ""
    /\ client.created /\ client.api_key = "sk-env"
LegacyNoKeyFailure ==
    /\ impl = "legacy" /\ CallReturned
    /\ result = Failure(MsgNoKeyLegacy)

\* the raw-text fallback was taken: no JSON parses, from the fenced block or
\* from the whole reply
FallbackTaken == gen.ok /\ gen.text # <<>> /\ ~Structured(gen.text).ok

\* C24: on a success result the explanation is the explanation of the
\* extracted structure: the value of the explanation key of a structured
\* reply, and the marker "Raw LLM output (no JSON detected)" when the
\* raw-text fallback was taken.
C24_ExplanationOfStructure ==
    (CallReturned /\ result.success) =>
        /\ FallbackTaken => result.explanation = RawMarker
        /\ (ParsedWithSql /\ Has(Structured(gen.text).v, kExplanation, "string")) =>
              result.explanation = Structured(gen.text).v.m[kExplanation].c

\* what the code gives instead: the value of the key "explaination", the
\* empty text when the extracted structure has no such key
ExplanationOfMisspeltKey ==
    (CallReturned /\ result.success) =>
        /\ FallbackTaken => result.explanation = <<>>
        /\ ParsedWithSql =>
              result.explanation =
                  IF Has(Structured(gen.text).v, kExplaination, "string")
                  THEN Structured(gen.text).v.m[kExplaination].c
                  ELSE <<>>

\* both C24 cases are reached with the explanation lost
FallbackExplanationLost ==
    CallReturned /\ result.success /\ FallbackTaken /\ result.explanation = <<>>
StructuredExplanationLost ==
    /\ CallReturned /\ result.success /\ ParsedWithSql
    /\ Has(Structured(gen.text).v, kExplanation, "string")
    /\ Structured(gen.text).v.m[kExplanation].c = tExplained
    /\ result.explanation = <<>>

MsgEmptyResponse == "Empty response from AI service"

\* C25: when the provider call succeeds and returns the empty text, the
\* result is the failure "Empty response from AI service"; the extraction
\* is not run on the empty text, so no success result with an empty
\* generated_query comes out of the raw-text fallback.
C25_EmptyResponse ==
    /\ (CallReturned /\ gen # NoGen /\ gen.ok /\ gen.text = <<>>) =>
          /\ result = Failure(MsgEmptyResponse)
          /\ ~result.success
    /\ (CallReturned /\ result.success /\ result.generated_query = <<>>) =>
          /\ impl = "legacy"
          /\ SqlBlockSearch(Chars(gen.text)).found

\* the C25 case: a call whose provider returned the empty text
C25_Witness ==
    /\ CallReturned /\ invocations = 1
    /\ gen = GenText(<<>>)
    /\ result = Failure(MsgEmptyResponse)
    /\ impl = "legacy"
EmptyResponseFromMulti ==
    /\ CallReturned /\ invocations = 1
    /\ gen = GenText(<<>>)
    /\ result = Failure(MsgEmptyResponse)
    /\ impl = "multi"

\* the configuration entries of the selected provider and of the other one
SelectedEntry == IF selected_provider = "OPENAI" THEN config.openai ELSE config.anthropic
OtherEntry    == IF selected_provider = "OPENAI" THEN config.anthropic ELSE config.openai
BuiltInModel ==
    IF selected_provider = "OPENAI" THEN "gpt-4o" ELSE "claude-3-5-sonnet-20241022"

\* C26: the model name sent to the provider is the default model name
\* configured for the selected provider when there is one that is not
\* empty, and otherwise the built-in default of the selected provider; it is
\* never empty and never the one configured for the other provider.
C26_ModelName ==
    (impl = "multi" /\ invocations = 1) =>
        /\ selected_provider \in {"OPENAI", "ANTHROPIC"}
        /\ options.model =
              IF SelectedEntry.present /\ SelectedEntry.default_model # ""
              THEN SelectedEntry.default_model ELSE BuiltInModel
        /\ options.model = model_name
        /\ options.model # ""
        /\ (OtherEntry.present /\ OtherEntry.default_model # "") =>
              options.model # OtherEntry.default_model

\* the C26 case: the selected provider has an entry without a model name,
\* the other provider has one, and the built-in default is sent
C26_Witness ==
    /\ impl = "multi" /\ invocations = 1
    /\ selected_provider = "OPENAI"
    /\ config.openai.present /\ config.openai.default_model = ""
    /\ config.anthropic.present /\ config.anthropic.default_model = "claude-3-haiku"
    /\ options.model = "gpt-4o"

\* other C26 cases: the configured name is sent, for either provider
ConfiguredModelSent ==
    /\ impl = "multi" /\ invocations = 1
    /\ selected_provider = "ANTHROPIC"
    /\ options.model = "claude-3-haiku"
BuiltInAnthropicSent ==
    /\ impl = "multi" /\ invocations = 1
    /\ selected_provider = "ANTHROPIC"
    /\ ~config.anthropic.present
    /\ options.model = "claude-3-5-sonnet-20241022"

\* the request with the preference "auto" in place of its own
AsAuto(req) == [req EXCEPT !.provider = "auto"]

OtherPreference == request.provider \notin {"openai", "anthropic"}

\* C27: a provider preference other than exactly "openai" or "anthropic"
\* (the empty string, another case such as "OpenAI", an unknown name) is
\* resolved by the rules of "auto": a credential given with the request
\* selects OpenAI with that credential, else the first of OpenAI and
\* Anthropic with a configured credential is selected, else the call fails
\* for the missing credential; it is never rejected for the preference.
C27_OtherPreferenceIsAuto ==
    (/\ impl = "multi"
     /\ request.natural_language # ""
     /\ OtherPreference
     /\ AfterResolution) =>
        LET auto == Resolve(AsAuto(request), config)
        IN /\ auto.returned =>
                /\ CallReturned
                /\ result = auto.result
                /\ result = Failure(MsgNoKeyAuto)
                /\ request.api_key = ""
                /\ ~Usable(config.openai) /\ ~Usable(config.anthropic)
           /\ ~auto.returned =>
                /\ selected_provider = auto.selected_provider
                /\ api_key = auto.api_key
                /\ api_key_source = auto.api_key_source
                /\ provider_config = auto.provider_config
                /\ selected_provider =
                      IF request.api_key # "" \/ Usable(config.openai)
                      THEN "OPENAI" ELSE "ANTHROPIC"
                /\ api_key =
                      IF request.api_key # "" THEN request.api_key
                      ELSE IF Usable(config.openai) THEN config.openai.api_key
                      ELSE config.anthropic.api_key

\* the C27 case: an unknown name, no credential in the request, only
\* Anthropic configured, and the provider invoked
C27_Witness ==
    /\ impl = "multi"
    /\ request.provider = "gemini"
    /\ request.api_key = ""
    /\ ~Usable(config.openai)
    /\ selected_provider = "ANTHROPIC"
    /\ api_key = "sk-ant-cfg"
    /\ invocations = 1

\* other C27 cases: the empty preference and the differently-cased name
EmptyPreferenceResolved ==
    /\ impl = "multi" /\ request.provider = "" /\ request.api_key = "sk-param"
    /\ selected_provider = "OPENAI" /\ api_key = "sk-param" /\ invocations = 1
CasedPreferenceResolved ==
    /\ impl = "multi" /\ request.provider = "OpenAI" /\ request.api_key = ""
    /\ Usable(config.openai) /\ Usable(config.anthropic)
    /\ selected_provider = "OPENAI" /\ api_key = "sk-openai-cfg" /\ invocations = 1

\* the client of the call exists, is being created, or has been invoked
AtClientOrProvider ==
    \/ pc \in {"creating_client", "configuring", "invoking_provider",
               "parsing_response"}
    \/ client.created
    \/ invocations >= 1

\* C28: whenever the multi-provider generateQuery creates a provider client
\* or invokes the provider, the resolved credential is not empty and a
\* provider has been selected, for every combination of preference,
\* credential of the request and configuration, a missing provider entry
\* included.
C28_CredentialAtClient ==
    (impl = "multi" /\ AtClientOrProvider) =>
        /\ api_key # ""
        /\ selected_provider \in {"OPENAI", "ANTHROPIC"}
        /\ client.created =>
              /\ client.api_key = api_key
              /\ client.factory =
                    IF selected_provider = "OPENAI" THEN "ai::openai"
                    ELSE "ai::anthropic"

\* the C28 case: an explicit preference whose provider has no configuration
\* entry, the credential coming with the request
C28_Witness ==
    /\ impl = "multi"
    /\ request.provider = "anthropic"
    /\ ~config.anthropic.present
    /\ request.api_key = "sk-param"
    /\ client.created /\ client.api_key = "sk-param"
    /\ invocations = 1

\* without entry and without credential the call ends before the client
NoEntryNoCredential ==
    /\ impl = "multi" /\ CallReturned
    /\ request.provider = "openai" /\ ~config.openai.present
    /\ request.api_key = ""
    /\ result = Failure(MsgNoKeyFor("openai"))
    /\ ~client.created /\ invocations = 0

\* the single-provider generator does reach its client with an empty
\* credential, when OPENAI_API_KEY is set to the empty string
LegacyEmptyCredential ==
    /\ impl = "legacy" /\ client.created /\ client.api_key = ""
    /\ invocations = 1

\* the reply parses, fenced or as a whole, as JSON that is no object, or as
\* an object whose sql member is no string
NotAnObject == Structured(gen.text).ok /\ Structured(gen.text).v.t # "object"
SqlNotAString ==
    /\ Structured(gen.text).ok
    /\ Structured(gen.text).v.t = "object"
    /\ kSql \in DOMAIN Structured(gen.text).v.m
    /\ Structured(gen.text).v.m[kSql].t # "string"

\* C29: when the whole reply parses as JSON that is not an object (a bare
\* number, string, array, boolean or null), or as an object whose sql is
\* not a string, generateQuery returns a failure whose message starts with
\* "Exception: "; it neither takes the raw text as the query nor reports
\* "No SQL found in model response".
C29_NonObjectReply ==
    (/\ impl = "multi" /\ CallReturned
     /\ gen.ok /\ gen.text # <<>>
     /\ NotAnObject \/ SqlNotAString) =>
        /\ ~result.success
        /\ StartsWith(result.error_message, "Exception: ")
        /\ result.error_message # MsgNoSQL
        /\ result.generated_query = <<>>
        /\ NotAnObject =>
              result = Exception("[json.exception.type_error.306]")
        /\ SqlNotAString =>
              result = Exception("[json.exception.type_error.302]")

\* the C29 case: the reply is the bare number 42
C29_Witness ==
    /\ CallReturned /\ invocations = 1
    /\ gen = GenText(<<Lit(n42)>>)
    /\ result = Exception("[json.exception.type_error.306]")

\* other C29 cases: a bare string, an array, a boolean, null, each with
\* whitespace around it or not, and an object whose sql is a number
BareStringRejected ==
    /\ CallReturned /\ gen = GenText(<<Str(SelectOne)>>)
    /\ StartsWith(result.error_message, "Exception: ")
BareArrayRejected ==
    /\ CallReturned /\ gen = GenText(<<NL, LBracket, Str(SelectOne), RBracket>>)
    /\ StartsWith(result.error_message, "Exception: ")
BareBooleanRejected ==
    /\ CallReturned /\ gen = GenText(<<Lit(cTrue)>>)
    /\ StartsWith(result.error_message, "Exception: ")
BareNullRejected ==
    /\ CallReturned /\ gen = GenText(<<Lit(cNull)>>)
    /\ StartsWith(result.error_message, "Exception: ")
SqlNumberRejected ==
    /\ CallReturned /\ gen.ok /\ SqlNotAString
    /\ Structured(gen.text).v.m[kSql] = JNum(n42)
    /\ result = Exception("[json.exception.type_error.302]")

\* the warnings member of j is neither a string nor a list of strings
BadWarnings(j) ==
    /\ kWarnings \in DOMAIN j.m
    /\ j.m[kWarnings].t # "string"
    /\ \/ j.m[kWarnings].t # "array"
       \/ \E n \in DOMAIN j.m[kWarnings].a : j.m[kWarnings].a[n].t # "string"

\* the members other than sql and warnings that the result is built from
\* can be read
OthersReadable(j) ==
    /\ Omits(j, kExplaination) \/ Has(j, kExplaination, "string")
    /\ Omits(j, kRowLimit) \/ Has(j, kRowLimit, "boolean")
    /\ Omits(j, kVisualization) \/ Has(j, kVisualization, "string")

WithoutWarnings(j) ==
    JObj([x \in (DOMAIN j.m) \ {kWarnings} |-> j.m[x]])

\* C30: a warnings value that is neither a string nor a list of strings (a
\* number, an object, null, a list with an element that is no string)
\* never makes a failure of a reply whose sql is not empty: the result is a
\* success with the empty warnings list, and the other fields are what they
\* are without the warnings member.
C30_BadWarningsIgnored ==
    (/\ impl = "multi" /\ CallReturned /\ ParsedWithSql
     /\ BadWarnings(Structured(gen.text).v)) =>
        LET j == Structured(gen.text).v
        IN /\ OthersReadable(j) =>
                /\ result.success
                /\ result.error_message = ""
                /\ result.warnings = <<>>
                /\ result.generated_query = j.m[kSql].c
                /\ result.row_limit_applied =
                      IF Omits(j, kRowLimit) THEN FALSE ELSE j.m[kRowLimit].b
                /\ result.suggested_visualization =
                      IF Omits(j, kVisualization) THEN vizTable
                      ELSE j.m[kVisualization].c
           /\ result = FromText(RenderValue(WithoutWarnings(j)))

\* the C30 case: warnings is a list with a number in it, the other members
\* are given
C30_Witness ==
    /\ CallReturned /\ ParsedWithSql
    /\ BadWarnings(Structured(gen.text).v)
    /\ Structured(gen.text).v.m[kWarnings] = JArr(<<JStr(tWarnOne), JNum(n42)>>)
    /\ Has(Structured(gen.text).v, kRowLimit, "boolean")
    /\ Has(Structured(gen.text).v, kVisualization, "string")
    /\ result.success
    /\ result.warnings = <<>>
    /\ result.row_limit_applied
    /\ result.suggested_visualization = tChart

\* other C30 cases: a number, an object and null as the warnings
WarningsNumberIgnored ==
    /\ CallReturned /\ ParsedWithSql /\ result.success
    /\ kWarnings \in DOMAIN Structured(gen.text).v.m
    /\ Structured(gen.text).v.m[kWarnings] = JNum(n42)
ObjectWarningsIgnored ==
    /\ CallReturned /\ ParsedWithSql /\ result.success
    /\ kWarnings \in DOMAIN Structured(gen.text).v.m
    /\ Structured(gen.text).v.m[kWarnings].t = "object"
    /\ result.warnings = <<>>
NullWarningsIgnored ==
    /\ CallReturned /\ ParsedWithSql /\ result.success
    /\ kWarnings \in DOMAIN Structured(gen.text).v.m
    /\ Structured(gen.text).v.m[kWarnings] = JNull

====
